---- MODULE Spec2Model ----
(***************************************************************************)
(* GeoVision: multi-temporal change detection from multispectral bands.    *)
(* Model of src/utils/change_detection_real.py.                            *)
(*                                                                         *)
(* Numbers.  A band sample is an integer count of sensor quanta (the index *)
(* formulas are ratios, so the size of the quantum cancels: NIR 0.5 and    *)
(* Red 0.1 are the samples 5 and 1).  Every float64 value computed by the  *)
(* code that lies on the index scale (indices, changes, magnitudes) is a   *)
(* fixed-point integer counting units of 1e-8, the epsilon of line 76:     *)
(* 1.0 is SCALE units and the epsilon is Eps = 1 unit.  A float division   *)
(* is the exact quotient rounded to the nearest unit, sign-symmetric as    *)
(* IEEE division is.  The three outcomes of a float division by zero (NaN, *)
(* +Inf, -Inf) are explicit values.  TLC integers are 32 bits wide and TLC *)
(* stops on overflow, so products that do not fit are computed on limbs.   *)
(***************************************************************************)
EXTENDS Integers, Sequences, FiniteSets, TLC

\* ------------------------------------------------------------------------
\* Bounds of the model
\* ------------------------------------------------------------------------
MaxPixels == 2
MaxWidth == 3
MaxCalls == 2
Big == 50000000

\* ------------------------------------------------------------------------
\* Fixed-point float model
\* ------------------------------------------------------------------------
SCALE == 100000000
Eps == 1
Base == 10000
MaxFloat == 2147483647

Abs(x) == IF x < 0 THEN -x ELSE x

Num(x) == [k |-> "num", v |-> x]
NaN == [k |-> "nan", v |-> 0]
PosInf == [k |-> "posinf", v |-> 0]
NegInf == [k |-> "neginf", v |-> 0]

\* floor(r * 10^k / d) and the remainder, for 0 <= r < d, digit by digit
RECURSIVE FracDigits(_, _, _)
FracDigits(r, d, k) ==
    IF k = 0 THEN <<0, r>>
    ELSE LET p == FracDigits(r, d, k - 1)
         IN <<p[1] * 10 + ((p[2] * 10) \div d), (p[2] * 10) % d>>

\* n / d in units of 1e-8, rounded to nearest, d # 0
DivFix(n, d) ==
    LET N == Abs(n)
        D == Abs(d)
        fr == FracDigits(N % D, D, 8)
        q == (N \div D) * SCALE + fr[1]
        r == IF 2 * fr[2] >= D THEN q + 1 ELSE q
    IN IF (n < 0) # (d < 0) THEN -r ELSE r

\* float64 true division under np.errstate(divide='ignore', invalid='ignore')
DivideIgnore(n, d) ==
    IF d # 0 THEN Num(DivFix(n, d))
    ELSE IF n = 0 THEN NaN
    ELSE IF n > 0 THEN PosInf
    ELSE NegInf

\* np.nan_to_num with numpy's default for the infinities (largest float)
NanToNumDefaults(x) ==
    IF x.k = "nan" THEN Num(0)
    ELSE IF x.k = "posinf" THEN Num(MaxFloat)
    ELSE IF x.k = "neginf" THEN Num(-MaxFloat)
    ELSE x

\* the coercion left out: the raw quotient is returned
NanToNumMissing(x) == x

\* np.nan_to_num(x, nan=0.0, posinf=0.0, neginf=0.0)
nan_to_num(x) ==
    IF x.k = "num" THEN x ELSE Num(0)

\* ------------------------------------------------------------------------
\* Rasters: h rows, w columns, px the samples in row-major order
\* ------------------------------------------------------------------------
Raster(h, w, px) == [h |-> h, w |-> w, px |-> px]
Shape(r) == <<r.h, r.w>>
Size(r) == r.h * r.w

\* numpy broadcasting of two 2-D shapes
Broadcastable(s, t) ==
    /\ (s[1] = t[1] \/ s[1] = 1 \/ t[1] = 1)
    /\ (s[2] = t[2] \/ s[2] = 1 \/ t[2] = 1)

Max2(a, b) == IF a >= b THEN a ELSE b
Min2(a, b) == IF a <= b THEN a ELSE b

BroadcastShape(s, t) == <<Max2(s[1], t[1]), Max2(s[2], t[2])>>

\* sample of r seen at row i, column j of a broadcast shape
At(r, i, j) ==
    r.px[((IF r.h = 1 THEN 1 ELSE i) - 1) * r.w + (IF r.w = 1 THEN 1 ELSE j)]

\* elementwise binary operation with broadcasting
Elementwise(Op(_, _), a, b) ==
    LET s == BroadcastShape(Shape(a), Shape(b))
    IN Raster(s[1], s[2],
              [p \in 1..(s[1] * s[2]) |->
                  Op(At(a, ((p - 1) \div s[2]) + 1, ((p - 1) % s[2]) + 1),
                     At(b, ((p - 1) \div s[2]) + 1, ((p - 1) % s[2]) + 1))])

MapRaster(Op(_), a) == Raster(a.h, a.w, [p \in 1..Size(a) |-> Op(a.px[p])])

\* ------------------------------------------------------------------------
\* Spectral indices
\* ------------------------------------------------------------------------
\* (a - b) / (a + b) on the float copies of two samples
NormDiff(a, b) == DivideIgnore(a - b, a + b)

calculate_ndvi(nir, red) ==
    MapRaster(nan_to_num, Elementwise(NormDiff, nir, red))

\* NDMI that leaves SWIR out: (NIR - NIR) / (NIR + NIR)
NdmiOnRed(nir, swir) ==
    MapRaster(nan_to_num, Elementwise(NormDiff, nir, nir))

calculate_ndmi(nir, swir) ==
    MapRaster(nan_to_num, Elementwise(NormDiff, nir, swir))

NdbiSwapped(swir, nir) ==
    MapRaster(nan_to_num, Elementwise(NormDiff, nir, swir))

calculate_ndbi(swir, nir) ==
    MapRaster(nan_to_num, Elementwise(NormDiff, swir, nir))

\* ------------------------------------------------------------------------
\* Change-vector magnitude: sqrt(x^2 + y^2 + z^2) on three changes
\* ------------------------------------------------------------------------
\* a number H * Base^2 + M * Base + L with M, L carried into 0..Base-1
Canon(H, M, L) ==
    LET m == M + (L \div Base)
    IN <<H + (m \div Base), m % Base, L % Base>>

\* r * r + c on limbs, r >= 0, c >= 0
SqPlus(r, c) ==
    LET rh == r \div Base
        rl == r % Base
    IN Canon(rh * rh, 2 * rh * rl, rl * rl + c)

SumSq3(x, y, z) ==
    LET xh == Abs(x) \div Base
        xl == Abs(x) % Base
        yh == Abs(y) \div Base
        yl == Abs(y) % Base
        zh == Abs(z) \div Base
        zl == Abs(z) % Base
    IN Canon(xh * xh + yh * yh + zh * zh,
             2 * xh * xl + 2 * yh * yl + 2 * zh * zl,
             xl * xl + yl * yl + zl * zl)

LimbLeq(a, b) ==
    \/ a[1] < b[1]
    \/ a[1] = b[1] /\ a[2] < b[2]
    \/ a[1] = b[1] /\ a[2] = b[2] /\ a[3] <= b[3]

\* the largest r in lo..hi with r * r <= N
RECURSIVE SqrtSearch(_, _, _)
SqrtSearch(lo, hi, N) ==
    IF lo >= hi THEN lo
    ELSE LET mid == (lo + hi + 1) \div 2
         IN IF LimbLeq(SqPlus(mid, 0), N)
            THEN SqrtSearch(mid, hi, N)
            ELSE SqrtSearch(lo, mid - 1, N)

\* the largest a in lo..hi with a * a <= n
RECURSIVE ISqrtSearch(_, _, _)
ISqrtSearch(lo, hi, n) ==
    IF lo >= hi THEN lo
    ELSE LET mid == (lo + hi + 1) \div 2
         IN IF mid * mid <= n
            THEN ISqrtSearch(mid, hi, n)
            ELSE ISqrtSearch(lo, mid - 1, n)

\* np.sqrt(x**2 + y**2 + z**2), rounded to the nearest unit: the high limb
\* a of the root is the root of the high limb of the sum, the low limb lies
\* within Base / (2a) + 1 below ((H - a^2) * Base + M) / (2a)
Magnitude(x, y, z) ==
    LET m == Max2(Abs(x), Max2(Abs(y), Abs(z)))
        N == SumSq3(x, y, z)
        a == ISqrtSearch(m \div Base, (2 * m) \div Base, N[1])
        b0 == IF a = 0 THEN Base - 1
              ELSE Min2(Base - 1, ((N[1] - a * a) * Base + N[2]) \div (2 * a))
        lo == IF a = 0 THEN 0 ELSE Max2(0, b0 - (Base \div (2 * a)) - 2)
        r == SqrtSearch(Max2(m, a * Base + lo), Min2(2 * m, a * Base + b0), N)
    IN IF LimbLeq(SqPlus(r, r + 1), N) THEN r + 1 ELSE r

RECURSIVE SeqMin(_)
SeqMin(s) ==
    IF Len(s) = 1 THEN s[1] ELSE Min2(s[1], SeqMin(Tail(s)))

RECURSIVE SeqMax(_)
SeqMax(s) ==
    IF Len(s) = 1 THEN s[1] ELSE Max2(s[1], SeqMax(Tail(s)))

RECURSIVE SeqSum(_)
SeqSum(s) ==
    IF Len(s) = 0 THEN 0 ELSE s[1] + SeqSum(Tail(s))

\* a float quotient n / d kept exact; d = 0 is the NaN of 0.0 / 0.0
Quot(n, d) == [n |-> n, d |-> d]

\* min-max normalisation without the epsilon
NormalizeNoEps(mag) ==
    LET lo == SeqMin(mag.px)
        hi == SeqMax(mag.px)
    IN MapRaster(LAMBDA s : Quot(s - lo, hi - lo), mag)

\* the range taken from zero: (cva_magnitude - min) / (max + 1e-8)
NormalizeByMax(mag) ==
    LET lo == SeqMin(mag.px)
        hi == SeqMax(mag.px)
    IN MapRaster(LAMBDA s : Quot(s - lo, hi + Eps), mag)

\* the epsilon doubled: (cva_magnitude - min) / (max - min + 2e-8)
NormalizeWideEps(mag) ==
    LET lo == SeqMin(mag.px)
        hi == SeqMax(mag.px)
    IN MapRaster(LAMBDA s : Quot(s - lo, hi - lo + 2 * Eps), mag)

\* (cva_magnitude - min) / (max - min + 1e-8)
Normalize(mag) ==
    LET lo == SeqMin(mag.px)
        hi == SeqMax(mag.px)
    IN MapRaster(LAMBDA s : Quot(s - lo, hi - lo + Eps), mag)

\* comparisons of a quotient with the constant p / q; all false on NaN
QuotLt(m, p, q) == m.d > 0 /\ q * m.n < p * m.d
QuotGeq(m, p, q) == m.d > 0 /\ q * m.n >= p * m.d

\* np.sum(mask) over a raster
CountPx(r, Mask(_)) == Cardinality({p \in 1..Size(r) : Mask(r.px[p])})

\* ------------------------------------------------------------------------
\* cv2.resize(src, (W, H)), bilinear (the default interpolation)
\* ------------------------------------------------------------------------
\* source coordinate of destination index j (0-based) when n samples are
\* resampled to m: ((2j + 1) n - m) / (2m), clamped to the source
SrcNum(j, n, m) == (2 * j + 1) * n - m

SrcIdx(j, n, m) ==
    IF SrcNum(j, n, m) < 0 THEN 0
    ELSE Min2(SrcNum(j, n, m) \div (2 * m), n - 1)

SrcFrac(j, n, m) ==
    IF SrcNum(j, n, m) < 0 \/ SrcNum(j, n, m) \div (2 * m) >= n - 1 THEN 0
    ELSE SrcNum(j, n, m) % (2 * m)

\* a + (b - a) * f / g rounded half up, as the 8-bit path rounds
Lerp(a, b, f, g) == a + ((2 * (b - a) * f + g) \div (2 * g))

\* the columns resampled to W, then the rows resampled to H
ResizeCols(r, W) ==
    Raster(r.h, W,
           [p \in 1..(r.h * W) |->
               LET i == (p - 1) \div W
                   j == (p - 1) % W
                   x == SrcIdx(j, r.w, W)
                   f == SrcFrac(j, r.w, W)
               IN IF f = 0 THEN r.px[i * r.w + x + 1]
                  ELSE Lerp(r.px[i * r.w + x + 1], r.px[i * r.w + x + 2],
                            f, 2 * W)])

ResizeRows(r, H) ==
    Raster(H, r.w,
           [p \in 1..(H * r.w) |->
               LET i == (p - 1) \div r.w
                   j == (p - 1) % r.w
                   y == SrcIdx(i, r.h, H)
                   f == SrcFrac(i, r.h, H)
               IN IF f = 0 THEN r.px[y * r.w + j + 1]
                  ELSE Lerp(r.px[y * r.w + j + 1], r.px[(y + 1) * r.w + j + 1],
                            f, 2 * H)])

\* dsize is (width, height)
Resize(r, dsize) == ResizeRows(ResizeCols(r, dsize[1]), dsize[2])

\* ------------------------------------------------------------------------
\* RealChangeDetectionAnalyzer
\* ------------------------------------------------------------------------
\* __init__
NewAnalyzer ==
    [algorithms |-> <<"NDVI", "NDMI", "NDBI", "CVA">>, use_real_bands |-> TRUE]

\* the outcome of a call: a returned dict or a raised exception
Returned(d) == [status |-> "ok", value |-> d]
Raised(e) == [status |-> "raised", error |-> e]
None == [status |-> "none"]

\* thresholds of the statistics: 0.1 on a change, 0.2 and 0.5 on the
\* normalised magnitude (as fractions)
ChangeCut == 10000000
NoChangeCut == <<1, 5>>
SignificantCut == <<1, 2>>

\* index(T2) + index(T1): the operands of the difference confused
ChangeSum(i2, i1) == Elementwise(LAMBDA x, y : x.v + y.v, i2, i1)

\* index(T1) - index(T2): the difference taken the wrong way round
ChangeReversed(i2, i1) == Elementwise(LAMBDA x, y : y.v - x.v, i2, i1)

\* index(T2) - index(T1), pixel by pixel
Change(i2, i1) == Elementwise(LAMBDA x, y : x.v - y.v, i2, i1)

\* n / d rounded to the nearest integer, sign-symmetric
RoundDiv(n, d) ==
    IF n < 0 THEN -((2 * (-n) + d) \div (2 * d)) ELSE (2 * n + d) \div (2 * d)

\* float(count / total_pixels * 100), in units of 1e-6 percent: PCT units
\* are one percentage point, so the factor 100 turns the quotient's unit of
\* 1e-8 into 1e-6 percent
PCT == 1000000
Pct(count, total) == DivFix(count, total) * ((100 * PCT) \div SCALE)

\* dsize taken as (shape[0], shape[1]): rows and columns confused
ResizeTargetSwapped(bands1) == <<bands1["nir"].h, bands1["nir"].w>>

\* (bands1['nir'].shape[1], bands1['nir'].shape[0])
ResizeTarget(bands1) == <<bands1["nir"].w, bands1["nir"].h>>

\* lines 54-59: bands2 as the call leaves it in the caller's mapping
ResizedBands2(bands1, bands2) ==
    IF Shape(bands1["nir"]) # Shape(bands2["nir"])
    THEN [key \in DOMAIN bands2 |-> Resize(bands2[key], ResizeTarget(bands1))]
    ELSE bands2

\* significant counted with > 0.5 instead of >= 0.5
SignificantMaskStrict(m) ==
    m.d > 0 /\ SignificantCut[2] * m.n > SignificantCut[1] * m.d

NoChangeMask(m) == QuotLt(m, NoChangeCut[1], NoChangeCut[2])
\* moderate counted from > 0.2 instead of >= 0.2
ModerateMaskStrict(m) ==
    /\ m.d > 0 /\ NoChangeCut[2] * m.n > NoChangeCut[1] * m.d
    /\ QuotLt(m, SignificantCut[1], SignificantCut[2])

ModerateMask(m) ==
    /\ QuotGeq(m, NoChangeCut[1], NoChangeCut[2])
    /\ QuotLt(m, SignificantCut[1], SignificantCut[2])
SignificantMask(m) == QuotGeq(m, SignificantCut[1], SignificantCut[2])

\* gain and loss counted with >= 0.1 and <= -0.1
ChangeStatsInclusive(change) ==
    [mean_change |-> RoundDiv(SeqSum(change.px), Size(change)),
     max_change |-> SeqMax(change.px),
     min_change |-> SeqMin(change.px),
     gain |-> Pct(CountPx(change, LAMBDA c : c >= ChangeCut), Size(change)),
     loss |-> Pct(CountPx(change, LAMBDA c : c <= -ChangeCut), Size(change))]

\* mean, max, min of a change raster and its gain and loss percentages
\* (std_change is an output-only scalar and is not carried)
ChangeStats(change) ==
    [mean_change |-> RoundDiv(SeqSum(change.px), Size(change)),
     max_change |-> SeqMax(change.px),
     min_change |-> SeqMin(change.px),
     gain |-> Pct(CountPx(change, LAMBDA c : c > ChangeCut), Size(change)),
     loss |-> Pct(CountPx(change, LAMBDA c : c < -ChangeCut), Size(change))]

\* lines 90-97, 98-105, 106-113: the statistics of one index under its keys
NdviStats(s) ==
    [mean_change |-> s.mean_change,
     max_change |-> s.max_change,
     min_change |-> s.min_change,
     vegetation_gain |-> s.gain,
     vegetation_loss |-> s.loss]

NdmiStats(s) ==
    [mean_change |-> s.mean_change,
     max_change |-> s.max_change,
     min_change |-> s.min_change,
     moisture_gain |-> s.gain,
     moisture_loss |-> s.loss]

NdbiStats(s) ==
    [mean_change |-> s.mean_change,
     max_change |-> s.max_change,
     min_change |-> s.min_change,
     urban_expansion |-> s.gain,
     urban_reduction |-> s.loss]

\* the numerators of a normalised raster (its denominators are all alike)
Numerators(cva_normalized) ==
    [p \in 1..Size(cva_normalized) |-> cva_normalized.px[p].n]

\* lines 79-82, 114-120: the tiers of the normalised magnitude in percent,
\* its mean and its maximum
CvaStats(cva_normalized) ==
    [no_change_percent |->
         Pct(CountPx(cva_normalized, NoChangeMask), Size(cva_normalized)),
     moderate_change_percent |->
         Pct(CountPx(cva_normalized, ModerateMask), Size(cva_normalized)),
     significant_change_percent |->
         Pct(CountPx(cva_normalized, SignificantMask), Size(cva_normalized)),
     mean_magnitude |->
         Quot(SeqSum(Numerators(cva_normalized)),
              Size(cva_normalized) * cva_normalized.px[1].d),
     max_magnitude |->
         Quot(SeqMax(Numerators(cva_normalized)), cva_normalized.px[1].d)]

\* line 75: np.sqrt(ndvi_change**2 + ndmi_change**2 + ndbi_change**2)
CvaMagnitude(ndvi_change, ndmi_change, ndbi_change) ==
    Elementwise(LAMBDA xy, z : Magnitude(xy[1], xy[2], z),
                Elementwise(LAMBDA x, y : <<x, y>>, ndvi_change, ndmi_change),
                ndbi_change)

\* lines 84-124: the returned dict
ResultsDict(ndvi_change, ndmi_change, ndbi_change, cva_normalized) ==
    [ndvi_change |-> ndvi_change,
     ndmi_change |-> ndmi_change,
     ndbi_change |-> ndbi_change,
     cva_magnitude |-> cva_normalized,
     statistics |->
       [ndvi |-> NdviStats(ChangeStats(ndvi_change)),
        ndmi |-> NdmiStats(ChangeStats(ndmi_change)),
        ndbi |-> NdbiStats(ChangeStats(ndbi_change)),
        cva |-> CvaStats(cva_normalized)],
     data_source |-> "Real Satellite Bands (Landsat/Sentinel)",
     bands_used |-> "NIR, Red, SWIR (multispectral)"]

\* lines 75-126 on the three change rasters
FromChanges(ndvi_change, ndmi_change, ndbi_change) ==
    ResultsDict(ndvi_change, ndmi_change, ndbi_change,
                Normalize(CvaMagnitude(ndvi_change, ndmi_change, ndbi_change)))

\* lines 61-126 on shape-compatible, non-empty rasters
ComputeResults(bands1, bands2) ==
    FromChanges(Change(calculate_ndvi(bands2["nir"], bands2["red"]),
                       calculate_ndvi(bands1["nir"], bands1["red"])),
                Change(calculate_ndmi(bands2["nir"], bands2["swir"]),
                       calculate_ndmi(bands1["nir"], bands1["swir"])),
                Change(calculate_ndbi(bands2["swir"], bands2["nir"]),
                       calculate_ndbi(bands1["swir"], bands1["nir"])))

\* lines 55-59 on an empty raster or an empty target: cv2.resize rejects
\* both with cv2.error. The rasters of one mapping share a shape, so the
\* first key already fails and nothing has been assigned
ResizeFails(bands1, bands2) ==
    /\ Shape(bands1["nir"]) # Shape(bands2["nir"])
    /\ \/ Size(bands1["nir"]) = 0
       \/ \E key \in DOMAIN bands2 : Size(bands2[key]) = 0

\* the pairs of rasters that lines 62-75 combine elementwise
ShapesCompatible(bands1, bands2) ==
    LET s1 == BroadcastShape(Shape(bands1["nir"]), Shape(bands1["red"]))
        s2 == BroadcastShape(Shape(bands2["nir"]), Shape(bands2["red"]))
        t1 == BroadcastShape(Shape(bands1["nir"]), Shape(bands1["swir"]))
        t2 == BroadcastShape(Shape(bands2["nir"]), Shape(bands2["swir"]))
    IN /\ Broadcastable(Shape(bands1["nir"]), Shape(bands1["red"]))
       /\ Broadcastable(Shape(bands2["nir"]), Shape(bands2["red"]))
       /\ Broadcastable(Shape(bands1["nir"]), Shape(bands1["swir"]))
       /\ Broadcastable(Shape(bands2["nir"]), Shape(bands2["swir"]))
       /\ Broadcastable(s2, s1)
       /\ Broadcastable(t2, t1)
       /\ Broadcastable(BroadcastShape(s2, s1), BroadcastShape(t2, t1))

\* the resize block run after the indices instead of before them: the
\* rasters are combined as they came, the mapping is resampled all the same
DetectResizeLast(bands1, bands2) ==
    IF ~({"nir", "red", "swir"} \subseteq DOMAIN bands1
         /\ {"nir", "red", "swir"} \subseteq DOMAIN bands2)
    THEN [out |-> Raised("KeyError"), bands2 |-> bands2]
    ELSE IF ~ShapesCompatible(bands1, bands2)
    THEN [out |-> Raised("ValueError"), bands2 |-> bands2]
    ELSE [out |-> Returned(ComputeResults(bands1, bands2)),
          bands2 |-> ResizedBands2(bands1, bands2)]

\* the bands the engine reads
RequiredKeys == {"nir", "red", "swir"}

\* a band that is missing taken from the 'nir' raster of its mapping
DefaultedBands(bands) ==
    [key \in {"nir", "red", "swir"} |->
        IF key \in DOMAIN bands THEN bands[key] ELSE bands["nir"]]

\* missing red or swir bands silently defaulted instead of rejected
DetectDefaulting(bands1, bands2) ==
    IF "nir" \notin DOMAIN bands1 \/ "nir" \notin DOMAIN bands2
    THEN [out |-> Raised("KeyError"), bands2 |-> bands2]
    ELSE IF ResizeFails(bands1, bands2)
    THEN [out |-> Raised("cv2.error"), bands2 |-> bands2]
    ELSE IF Size(bands1["nir"]) = 0 \/ Size(bands2["nir"]) = 0
    THEN [out |-> Raised("ValueError"), bands2 |-> bands2]
    ELSE [out |-> Returned(ComputeResults(
                      DefaultedBands(bands1),
                      ResizedBands2(bands1, DefaultedBands(bands2)))),
          bands2 |-> ResizedBands2(bands1, bands2)]

\* the empty magnitude normalised with substituted extremes instead of
\* rejected: an empty result with all-zero statistics
DetectEmptySubstituted(bands1, bands2) ==
    IF ~(RequiredKeys \subseteq DOMAIN bands1
         /\ RequiredKeys \subseteq DOMAIN bands2)
    THEN [out |-> Raised("KeyError"), bands2 |-> bands2]
    ELSE IF Size(bands1["nir"]) = 0 \/ Size(bands2["nir"]) = 0
    THEN [out |-> Returned([ndvi_change |-> Raster(0, 0, << >>),
                            statistics |-> [cva |-> [max_magnitude |-> 0]]]),
          bands2 |-> bands2]
    ELSE [out |-> Raised("ValueError"), bands2 |-> bands2]

\* detect_changes_with_real_bands: the outcome of the call and the caller's
\* bands2 mapping after it
detect_changes_with_real_bands(bands1, bands2) ==
    IF "nir" \notin DOMAIN bands1 \/ "nir" \notin DOMAIN bands2
    THEN [out |-> Raised("KeyError"), bands2 |-> bands2]
    ELSE IF ResizeFails(bands1, bands2)
    THEN [out |-> Raised("cv2.error"), bands2 |-> bands2]
    ELSE LET resized == ResizedBands2(bands1, bands2)
         IN IF ~({"red", "swir"} \subseteq DOMAIN bands1
                  /\ {"red", "swir"} \subseteq DOMAIN resized)
            THEN [out |-> Raised("KeyError"), bands2 |-> resized]
            ELSE IF ~ShapesCompatible(bands1, resized)
            THEN [out |-> Raised("ValueError"), bands2 |-> resized]
            ELSE IF Size(bands1["nir"]) = 0 \/ Size(resized["nir"]) = 0
            THEN [out |-> Raised("ValueError"), bands2 |-> resized]
            ELSE [out |-> Returned(ComputeResults(bands1, resized)),
                  bands2 |-> resized]

\* ------------------------------------------------------------------------
\* Legacy path: bands simulated from a three-channel 8-bit image
\* ------------------------------------------------------------------------
\* an image is h x w pixels, each <<red, green, blue>>
Image(h, w, px) == [h |-> h, w |-> w, px |-> px]

Channel(image, c) ==
    Raster(image.h, image.w, [p \in 1..(image.h * image.w) |-> image.px[p][c]])

\* cv2.resize on a three-channel image: every channel resampled alike
ResizeImage(image, dsize) ==
    LET r == Resize(Channel(image, 1), dsize)
        g == Resize(Channel(image, 2), dsize)
        b == Resize(Channel(image, 3), dsize)
    IN Image(r.h, r.w, [p \in 1..(r.h * r.w) |-> <<r.px[p], g.px[p], b.px[p]>>])

\* np.clip(x, 0, 255).astype(np.uint8) on x = num / 10
ClipU8(num) == Min2(Max2(num, 0), 2550) \div 10

\* line 144 in binary floating point: on these <<red, blue>> samples
\* 0.8 * red + 0.3 * blue is a whole number, but the sum of the two rounded
\* double products lies just below it (1 * 0.8 + 24 * 0.3 is
\* 7.999999999999999), so that astype(np.uint8) truncates to one less. On
\* every other pair of 8-bit samples, and for 1.2 * green + 20 on every
\* 8-bit sample, truncating the double gives the exact floor.
SwirShortfall ==
    {<<1, 24>>, <<1, 114>>, <<1, 124>>, <<1, 134>>, <<1, 144>>, <<1, 154>>,
     <<1, 164>>, <<1, 174>>, <<1, 184>>, <<1, 194>>, <<1, 204>>, <<2, 48>>,
     <<2, 218>>, <<2, 228>>, <<2, 238>>, <<2, 248>>, <<3, 192>>, <<3,
     202>>, <<4, 96>>, <<7, 218>>, <<7, 228>>, <<7, 238>>, <<7, 248>>, <<8,
     192>>}

\* np.clip(green * 1.2 + 20, 0, 255).astype(np.uint8) on one sample
NirOf(g) == ClipU8(12 * g + 200)

\* np.clip(red * 0.8 + blue * 0.3, 0, 255).astype(np.uint8) on one pixel
SwirOf(r, b) ==
    IF <<r, b>> \in SwirShortfall
    THEN ClipU8(8 * r + 3 * b) - 1
    ELSE ClipU8(8 * r + 3 * b)

simulate_bands_from_rgb(image) ==
    LET red == Channel(image, 1)
        green == Channel(image, 2)
        blue == Channel(image, 3)
    IN [red |-> red,
        green |-> green,
        blue |-> blue,
        nir |-> MapRaster(NirOf, green),
        swir |-> Elementwise(SwirOf, red, blue)]

\* image2 as line 161 leaves the local variable
ResizedImage2(image1, image2) ==
    IF <<image1.h, image1.w>> # <<image2.h, image2.w>>
    THEN ResizeImage(image2, <<image1.w, image1.h>>)
    ELSE image2

SimulatedWarning == "Results use simulated bands and may not be scientifically accurate"

\* the provenance overwritten but the warning never added
SimulatedLabelsNoWarning(value) ==
    [key \in DOMAIN value |->
        IF key = "data_source"
        THEN "Simulated Bands (Demo Mode - NOT ACCURATE)"
        ELSE IF key = "bands_used"
        THEN "RGB-derived (not real multispectral)"
        ELSE value[key]]

\* lines 171-173: the labels of the simulated path set on the returned dict
SimulatedLabels(value) ==
    [key \in DOMAIN value \cup {"warning"} |->
        IF key = "data_source"
        THEN "Simulated Bands (Demo Mode - NOT ACCURATE)"
        ELSE IF key = "bands_used"
        THEN "RGB-derived (not real multispectral)"
        ELSE IF key = "warning" THEN SimulatedWarning
        ELSE value[key]]

\* the labels set on a dict that has lost its statistics
LabelOutcomeWithoutStatistics(r) ==
    IF r.status # "ok" THEN r
    ELSE Returned(SimulatedLabels(
             [key \in DOMAIN r.value \ {"statistics"} |-> r.value[key]]))

\* lines 168-175 on the outcome of detect_changes_with_real_bands
LabelOutcome(r) ==
    IF r.status # "ok" THEN r ELSE Returned(SimulatedLabels(r.value))

\* detect_changes: the outcome of the call
detect_changes(image1, image2) ==
    LabelOutcome(
        detect_changes_with_real_bands(
            simulate_bands_from_rgb(image1),
            simulate_bands_from_rgb(ResizedImage2(image1, image2))).out)

\* ------------------------------------------------------------------------
\* get_change_interpretation: the list of findings and the returned text
\* ------------------------------------------------------------------------
\* f"{x:.2f}" of a percentage: hundredths of a percent, rounded
Format2f(percent) == RoundDiv(percent, PCT \div 100)

\* a finding: its headline and the percentage printed in it
Finding(kind, percent) == [kind |-> kind, percent |-> Format2f(percent)]

\* lines 184-186: the warning of a simulated result and an empty line
WarningLines(results) ==
    IF "warning" \in DOMAIN results
    THEN <<[kind |-> "warning", text |-> results.warning],
           [kind |-> "blank", text |-> ""]>>
    ELSE << >>

\* the loss finding given from 10 percent on instead of above it
VegetationFindingInclusive(stats) ==
    IF stats.ndvi.vegetation_loss >= 10 * PCT
    THEN <<Finding("Significant Vegetation Loss", stats.ndvi.vegetation_loss)>>
    ELSE IF stats.ndvi.vegetation_gain > 10 * PCT
    THEN <<Finding("Vegetation Growth", stats.ndvi.vegetation_gain)>>
    ELSE << >>

\* lines 189-198
VegetationFinding(stats) ==
    IF stats.ndvi.vegetation_loss > 10 * PCT
    THEN <<Finding("Significant Vegetation Loss", stats.ndvi.vegetation_loss)>>
    ELSE IF stats.ndvi.vegetation_gain > 10 * PCT
    THEN <<Finding("Vegetation Growth", stats.ndvi.vegetation_gain)>>
    ELSE << >>

\* lines 201-205
UrbanFinding(stats) ==
    IF stats.ndbi.urban_expansion > 5 * PCT
    THEN <<Finding("Urban Expansion Detected", stats.ndbi.urban_expansion)>>
    ELSE << >>

\* lines 208-217
MoistureFinding(stats) ==
    IF stats.ndmi.moisture_loss > 15 * PCT
    THEN <<Finding("Moisture Depletion", stats.ndmi.moisture_loss)>>
    ELSE IF stats.ndmi.moisture_gain > 15 * PCT
    THEN <<Finding("Moisture Increase", stats.ndmi.moisture_gain)>>
    ELSE << >>

\* the overall finding without its final else branch
OverallWithoutStable(stats) ==
    IF stats.cva.significant_change_percent > 20 * PCT
    THEN <<Finding("Major Environmental Change",
                   stats.cva.significant_change_percent)>>
    ELSE IF stats.cva.moderate_change_percent > 30 * PCT
    THEN <<Finding("Moderate Environmental Change",
                   stats.cva.moderate_change_percent)>>
    ELSE << >>

\* lines 220-234
OverallFinding(stats) ==
    IF stats.cva.significant_change_percent > 20 * PCT
    THEN <<Finding("Major Environmental Change",
                   stats.cva.significant_change_percent)>>
    ELSE IF stats.cva.moderate_change_percent > 30 * PCT
    THEN <<Finding("Moderate Environmental Change",
                   stats.cva.moderate_change_percent)>>
    ELSE <<Finding("Stable Environment", stats.cva.no_change_percent)>>

\* the text returned for an empty list
Fallback == <<[kind |-> "No significant changes detected", text |-> ""]>>

\* line 236: "\n\n".join(interpretation), kept as the list of its
\* paragraphs, or the fallback text
JoinOrFallback(interpretation) ==
    IF interpretation # << >> THEN interpretation ELSE Fallback

\* get_change_interpretation(results)
get_change_interpretation(results) ==
    JoinOrFallback(WarningLines(results)
                   \o VegetationFinding(results.statistics)
                   \o UrbanFinding(results.statistics)
                   \o MoistureFinding(results.statistics)
                   \o OverallFinding(results.statistics))

\* ------------------------------------------------------------------------
\* GEEDataFetcher (src/utils/gee_fetcher.py)
\* ------------------------------------------------------------------------
\* __init__: Landsat first, Sentinel-2 not in use; initialized when the ee
\* module was imported and one of the two ee.Initialize calls succeeded
NewFetcher(id, ee_available, init_ok) ==
    [id |-> id,
     initialized |-> ee_available /\ init_ok,
     use_landsat |-> TRUE,
     use_sentinel |-> FALSE]

\* a fetcher built anew by every call
AlwaysConstruct(module, init_ok) ==
    LET made == NewFetcher(module.constructed + 1, module.EE_AVAILABLE,
                           init_ok)
    IN [module |-> [module EXCEPT !.gee_fetcher = made,
                                   !.constructed = @ + 1],
        returned |-> made.id]

\* get_gee_fetcher: the module after the call and the instance returned
get_gee_fetcher(module, init_ok) ==
    IF module.gee_fetcher = None
    THEN LET made == NewFetcher(module.constructed + 1, module.EE_AVAILABLE,
                                init_ok)
         IN [module |-> [module EXCEPT !.gee_fetcher = made,
                                        !.constructed = @ + 1],
             returned |-> made.id]
    ELSE [module |-> module, returned |-> module.gee_fetcher.id]

\* the metadata of a composite
LandsatMetadata == [sensor |-> "Landsat 8", cloud_masked |-> TRUE]
SentinelMetadata == [sensor |-> "Sentinel-2", cloud_masked |-> TRUE]

\* one attempt at a sensor and how it ended
Attempt(sensor, ok) == [sensor |-> sensor, ok |-> ok]

\* lines 140-144 of _get_composite, the Sentinel-2 call: it returns the
\* composite or lets the exception through
SentinelComposite(self, env, tried) ==
    IF env.sentinel
    THEN [self |-> self,
          out |-> Returned(<<env.image, SentinelMetadata>>),
          attempts |-> tried \o <<Attempt("Sentinel-2", TRUE)>>]
    ELSE [self |-> self,
          out |-> Raised("Sentinel-2 failed"),
          attempts |-> tried \o <<Attempt("Sentinel-2", FALSE)>>]

\* a failed Landsat attempt that leaves the flags as they were
GetCompositeKeepingLandsat(self, env) ==
    IF ~env.date_ok
    THEN [self |-> self, out |-> Raised("ValueError"), attempts |-> << >>]
    ELSE IF self.use_landsat /\ env.landsat
    THEN [self |-> self,
          out |-> Returned(<<env.image, LandsatMetadata>>),
          attempts |-> <<Attempt("Landsat", TRUE)>>]
    ELSE IF self.use_landsat
    THEN SentinelComposite(self, env, <<Attempt("Landsat", FALSE)>>)
    ELSE SentinelComposite(self, env, << >>)

\* _get_composite: env.date_ok says whether strptime takes the date,
\* env.landsat and env.sentinel whether the composite of that sensor can be
\* had, env.image is the array downloaded
GetComposite(self, env) ==
    IF ~env.date_ok
    THEN [self |-> self, out |-> Raised("ValueError"), attempts |-> << >>]
    ELSE IF self.use_landsat /\ env.landsat
    THEN [self |-> self,
          out |-> Returned(<<env.image, LandsatMetadata>>),
          attempts |-> <<Attempt("Landsat", TRUE)>>]
    ELSE IF self.use_landsat
    THEN SentinelComposite([self EXCEPT !.use_sentinel = TRUE,
                                        !.use_landsat = FALSE],
                           env, <<Attempt("Landsat", FALSE)>>)
    ELSE SentinelComposite(self, env, << >>)

\* the metadata of a successful pair; the label is read from use_landsat
\* after both composites
PairMetadata(self, loc, meta1, meta2) ==
    [historical |-> meta1,
     current |-> meta2,
     location |-> [lat |-> loc[1], lon |-> loc[2]],
     data_source |-> IF self.use_landsat THEN "Landsat 8/9"
                     ELSE "Sentinel-2"]

\* what fetch_temporal_pair hands back when it has caught an exception
FetchError(self, error, attempts) ==
    [self |-> self,
     out |-> Returned(<<None, None, [error |-> error]>>),
     attempts |-> attempts]

\* the second composite and the return of lines 91-104
SecondComposite(loc, first, second) ==
    IF second.out.status # "ok"
    THEN FetchError(second.self, second.out.error,
                    first.attempts \o second.attempts)
    ELSE [self |-> second.self,
          out |-> Returned(<<first.out.value[1], second.out.value[1],
                             PairMetadata(second.self, loc, first.out.value[2],
                                          second.out.value[2])>>),
          attempts |-> first.attempts \o second.attempts]

\* lines 80-104 once the first composite has ended
AfterFirstComposite(loc, first, env2) ==
    IF first.out.status # "ok"
    THEN FetchError(first.self, first.out.error, first.attempts)
    ELSE SecondComposite(loc, first, GetComposite(first.self, env2))

\* an exception of the first composite let through to the caller
FetchUncaught(self, loc, region_ok, env1, env2) ==
    IF ~self.initialized \/ ~region_ok \/ ~env1.date_ok
    THEN [self |-> self, out |-> Raised("Exception"), attempts |-> << >>]
    ELSE AfterFirstComposite(loc, GetComposite(self, env1), env2)

\* fetch_temporal_pair: the fetcher after the call, what the call returned
\* and the sensors it tried; region_ok says whether the region could be
\* built (lines 82-83)
fetch_temporal_pair(self, loc, region_ok, env1, env2) ==
    IF ~self.initialized
    THEN FetchError(self, "GEE not initialized", << >>)
    ELSE IF ~region_ok
    THEN FetchError(self, "region failed", << >>)
    ELSE AfterFirstComposite(loc, GetComposite(self, env1), env2)

\* ------------------------------------------------------------------------
\* RiskAssessmentSystem (src/utils/risk_assessment.py)
\* ------------------------------------------------------------------------
\* dict.get(key, default)
Get(d, key, default) == IF key \in DOMAIN d THEN d[key] ELSE default

\* land_cover_vulnerability, lines 20-31
land_cover_vulnerability ==
    [AnnualCrop |-> 35, Forest |-> 40, HerbaceousVegetation |-> 25,
     Highway |-> 15, Industrial |-> 45, Pasture |-> 30,
     PermanentCrop |-> 35, Residential |-> 30, River |-> 50, SeaLake |-> 55]

\* lulc_classes, lines 6-17
lulc_classes ==
    [AnnualCrop |-> "Annual Crop", Forest |-> "Forest",
     HerbaceousVegetation |-> "Herbaceous Vegetation",
     Highway |-> "Highway/Road", Industrial |-> "Industrial",
     Pasture |-> "Pasture", PermanentCrop |-> "Permanent Crop",
     Residential |-> "Residential", River |-> "River/Water Body",
     SeaLake |-> "Sea/Lake"]

\* an unknown class scored below every threshold
BaseScoreDefaultLow(lulc_class) == Get(land_cover_vulnerability, lulc_class, 10)

\* line 36: the base score of a class, 25 for a class not in the table
BaseScore(lulc_class) == Get(land_cover_vulnerability, lulc_class, 25)

\* one branch that fired: the factor appended (named without its
\* pictograph; description and value, which are only displayed, left out),
\* the amount added to risk_level and the recommendations appended
Hit(factor, severity, add, recs) ==
    <<[factor |-> factor, severity |-> severity, add |-> add, recs |-> recs]>>

\* lines 48-82
HeatHits(c, temp) ==
    IF temp > 40
    THEN Hit("Extreme Heat", "High", 35,
             IF c \in {"Forest", "HerbaceousVegetation"}
             THEN <<"CRITICAL: Implement fire prevention measures; monitor forest conditions closely">>
             ELSE IF c \in {"Residential", "Industrial"}
             THEN <<"Issue heat advisory; activate cooling centers; increase water supply">>
             ELSE <<"Prepare for emergency scenarios; maintain alert status">>)
    ELSE IF temp > 35
    THEN Hit("High Temperature", "Medium", 18,
             IF c \in {"Forest", "HerbaceousVegetation", "AnnualCrop",
                       "Pasture"}
             THEN <<"Monitor vegetation stress; ensure water availability">>
             ELSE <<"Prepare for possible temperature-related incidents">>)
    ELSE IF temp > 32
    THEN Hit("Warm Temperature", "Low", 8, << >>)
    ELSE << >>

\* lines 84-97
FreezeHits(c, temp) ==
    IF temp < 0
    THEN Hit("Freezing Temperature",
             IF temp < -10 THEN "High" ELSE "Medium",
             IF temp < -10 THEN 25 ELSE 15,
             IF c \in {"River", "SeaLake"}
             THEN <<"Monitor ice formation; restrict water-based activities">>
             ELSE IF c \in {"AnnualCrop", "Pasture", "PermanentCrop"}
             THEN <<"Protect crops from frost; provide heat for sensitive plants">>
             ELSE <<"Monitor infrastructure for freeze damage">>)
    ELSE << >>

\* lines 100-130
DrynessHits(c, temp, humidity) ==
    IF humidity < 20
    THEN Hit("Extreme Dryness", "High", 30,
             <<"Implement water conservation; prepare irrigation; monitor for wildfires">>)
    ELSE IF humidity < 35 /\ temp > 30
    THEN Hit("High Fire Danger", "High", 25,
             IF c \in {"Forest", "HerbaceousVegetation", "Pasture"}
             THEN <<"ALERT: Extreme fire risk; restrict outdoor activities; pre-position emergency resources">>
             ELSE <<"Prepare for potential fire incidents in adjacent areas">>)
    ELSE IF humidity < 50
    THEN Hit("Low Humidity", "Medium", 12,
             <<"Increase water monitoring; prepare irrigation schedules">>)
    ELSE << >>

\* lines 132-140
HumidHits(humidity) ==
    IF humidity > 85
    THEN Hit("High Humidity", "Medium", 15,
             <<"Prepare for possible heavy rainfall; monitor water drainage">>)
    ELSE << >>

\* lines 143-173
WindHits(c, wind_speed, wind_gust) ==
    IF wind_gust > 20
    THEN Hit("Severe Winds", "High", 28,
             IF c \in {"Forest", "Pasture", "AnnualCrop"}
             THEN <<"Secure loose materials; expect tree falls and crop damage; clear emergency routes">>
             ELSE IF c \in {"Residential", "Industrial", "Highway"}
             THEN <<"Issue wind advisory; secure infrastructure; restrict outdoor operations">>
             ELSE <<"Prepare for weather-related emergencies">>)
    ELSE IF wind_speed > 15
    THEN Hit("Strong Winds", "Medium", 15,
             <<"Monitor for wind damage; secure structures">>)
    ELSE IF wind_speed > 10
    THEN Hit("Windy Conditions", "Low", 5, << >>)
    ELSE << >>

\* lines 176-218
RainHits(c, rainfall_1h, rainfall_3h, humidity) ==
    IF rainfall_1h > 40
    THEN Hit("Flash Flood Risk", "High", 30,
             IF c \in {"River", "SeaLake"}
             THEN <<"ALERT: High flood risk; evacuate flood-prone areas; activate emergency protocols">>
             ELSE IF c \in {"Residential", "Industrial", "Highway"}
             THEN <<"Prepare evacuations; close low-lying roads; activate drainage systems">>
             ELSE <<"Monitor low-lying areas; prepare for water management">>)
    ELSE IF rainfall_3h > 60
    THEN Hit("Heavy Rain", "High", 25,
             <<"Monitor drainage and flood-prone locations; prepare for flooding">>)
    ELSE IF rainfall_1h > 20
    THEN Hit("Moderate Rainfall", "Medium", 12,
             IF c \in {"AnnualCrop", "Pasture", "PermanentCrop"}
             THEN <<"Monitor water accumulation; ensure proper drainage; delay field operations">>
             ELSE <<"Monitor water conditions">>)
    ELSE IF rainfall_3h > 0 /\ humidity > 70
    THEN Hit("Wet Conditions", "Low", 5,
             <<"Monitor crops for fungal/pest issues; maintain vegetation health">>)
    ELSE << >>

\* stats.get(index, {}).get(key, 0), a percentage in units of 1/PCT percent
StatOf(stats, index, key) ==
    IF index \in DOMAIN stats THEN Get(stats[index], key, 0) ELSE 0

\* lines 225-243
VegetationLossHits(c, ndvi_veg_loss) ==
    IF c \notin {"Forest", "HerbaceousVegetation", "Pasture"}
    THEN << >>
    ELSE IF ndvi_veg_loss > 25 * PCT
    THEN Hit("Severe Vegetation Loss", "High", 30,
             <<"URGENT: Investigate vegetation loss; implement reforestation/conservation">>)
    ELSE IF ndvi_veg_loss > 10 * PCT
    THEN Hit("Vegetation Decline", "Medium", 15,
             <<"Monitor vegetation health; assess causes of decline">>)
    ELSE << >>

\* lines 245-263
MoistureLossHits(c, ndmi_moisture_loss) ==
    IF c \notin {"AnnualCrop", "Pasture", "PermanentCrop",
                 "HerbaceousVegetation"}
    THEN << >>
    ELSE IF ndmi_moisture_loss > 25 * PCT
    THEN Hit("Critical Moisture Loss", "High", 28,
             <<"CRITICAL: Increase irrigation immediately; prepare drought contingency plans">>)
    ELSE IF ndmi_moisture_loss > 12 * PCT
    THEN Hit("Soil Moisture Decline", "Medium", 15,
             <<"Increase irrigation frequency; monitor water management">>)
    ELSE << >>

\* lines 265-276
UrbanHits(c, ndbi_urban_exp) ==
    IF c \in {"Residential", "Industrial", "Highway"}
       /\ ndbi_urban_exp > 15 * PCT
    THEN Hit("Rapid Urban Expansion", "High", 18,
             <<"Assess environmental impact; ensure infrastructure adequacy; plan services">>)
    ELSE << >>

\* lines 221-276: nothing unless change_stats is a non-empty mapping with
\* the key 'statistics'
ChangeHits(c, change_stats) ==
    IF change_stats = None \/ "statistics" \notin DOMAIN change_stats
    THEN << >>
    ELSE VegetationLossHits(c, StatOf(change_stats.statistics, "ndvi",
                                      "vegetation_loss"))
         \o MoistureLossHits(c, StatOf(change_stats.statistics, "ndmi",
                                       "moisture_loss"))
         \o UrbanHits(c, StatOf(change_stats.statistics, "ndbi",
                                "urban_expansion"))

\* lines 279-306
IndustrialHits(c, wind_speed, cloudiness) ==
    IF c # "Industrial"
    THEN << >>
    ELSE IF wind_speed < 5 /\ cloudiness > 70
    THEN Hit("Air Quality Risk", "High", 25,
             <<"Monitor air quality; issue pollution warnings; limit emissions">>)
    ELSE IF wind_speed < 3
    THEN Hit("Poor Air Dispersion", "Medium", 15,
             <<"Monitor air quality closely; prepare air quality advisories">>)
    ELSE Hit("Industrial Activity", "Low", 8, << >>)

\* lines 309-327
CropHits(c, temp, humidity) ==
    IF c \notin {"AnnualCrop", "PermanentCrop", "Pasture"}
    THEN << >>
    ELSE IF temp > 38 /\ humidity < 50
    THEN Hit("Crop Heat Stress", "High", 30,
             <<"Increase irrigation; provide shade protection; consider early harvest">>)
    ELSE IF temp > 35 /\ humidity < 40
    THEN Hit("Crop Stress", "Medium", 18,
             <<"Ensure adequate irrigation; monitor plant health">>)
    ELSE << >>

\* lines 330-349
WaterHits(c, temp, humidity, wind_speed) ==
    IF c \notin {"River", "SeaLake"}
    THEN << >>
    ELSE (IF temp < 0 /\ humidity > 65
          THEN Hit("Ice Formation", "High", 20,
                   <<"Monitor ice thickness; restrict water access; activate ice response">>)
          ELSE << >>)
         \o (IF wind_speed > 12
             THEN Hit("Roughy Water",
                      IF wind_speed > 18 THEN "High" ELSE "Medium",
                      IF wind_speed > 18 THEN 25 ELSE 15,
                      <<"Issue boating advisory; restrict water activities; warn mariners">>)
             ELSE << >>)

\* lines 48-349 on the readings of lines 39-46, in the order of the code
HitsOn(c, temp, humidity, wind_speed, wind_gust, rainfall_1h, rainfall_3h, cloudiness, change_stats) ==
    HeatHits(c, temp) \o FreezeHits(c, temp)
    \o DrynessHits(c, temp, humidity) \o HumidHits(humidity)
    \o WindHits(c, wind_speed, wind_gust)
    \o RainHits(c, rainfall_1h, rainfall_3h, humidity)
    \o ChangeHits(c, change_stats)
    \o IndustrialHits(c, wind_speed, cloudiness)
    \o CropHits(c, temp, humidity)
    \o WaterHits(c, temp, humidity, wind_speed)

\* lines 39-46: the readings with their defaults
Hits(lulc_class, weather_data, change_stats) ==
    HitsOn(lulc_class,
           Get(weather_data, "temperature", 20),
           Get(weather_data, "humidity", 50),
           Get(weather_data, "wind_speed", 0),
           Get(weather_data, "wind_gust", Get(weather_data, "wind_speed", 0)),
           Get(weather_data, "rainfall_1h", 0),
           Get(weather_data, "rainfall_3h", 0),
           Get(weather_data, "cloudiness", 0),
           change_stats)

\* the concatenation of the recommendations of the hits
RECURSIVE RecsOf(_)
RecsOf(hits) ==
    IF hits = << >> THEN << >> ELSE Head(hits).recs \o RecsOf(Tail(hits))

\* the sum of the amounts of the hits
RECURSIVE AddsOf(_)
AddsOf(hits) ==
    IF hits = << >> THEN 0 ELSE Head(hits).add + AddsOf(Tail(hits))

FactorsOf(hits) ==
    [k \in 1..Len(hits) |->
        [factor |-> hits[k].factor, severity |-> hits[k].severity]]

FavorableFactor == [factor |-> "Favorable Conditions", severity |-> "Low"]
FavorableRecommendation ==
    "Continue regular monitoring and maintenance protocols"

\* the favorable factor appended whatever has fired
AlwaysFavorable(factors) == factors \o <<FavorableFactor>>

\* lines 352-358: the factor list after `if not risk_factors`
WithFavorable(factors) ==
    IF factors = << >> THEN <<FavorableFactor>> ELSE factors

\* lines 352-359: the recommendations after `if not risk_factors`
WithFavorableRec(factors, recs) ==
    IF factors = << >> THEN recs \o <<FavorableRecommendation>> ELSE recs

\* a risk level left as summed
NoCap(risk_level) == risk_level

\* line 362
CapRisk(risk_level) == Min2(100, Max2(0, risk_level))

\* lines 365-379
RiskCategory(risk_level) ==
    IF risk_level >= 60 THEN "CRITICAL RISK"
    ELSE IF risk_level >= 40 THEN "HIGH RISK"
    ELSE IF risk_level >= 25 THEN "MEDIUM RISK"
    ELSE IF risk_level >= 12 THEN "LOW RISK"
    ELSE "MINIMAL RISK"

\* lines 365-379: risk_color, the pictograph named by its colour
RiskColor(risk_level) ==
    IF risk_level >= 40 THEN "red"
    ELSE IF risk_level >= 25 THEN "yellow"
    ELSE "green"

\* lines 361-388 on the level as capped, the factors and recommendations
RiskDict(lulc_class, risk_level, factors, recs) ==
    [risk_level |-> risk_level,
     risk_category |-> RiskCategory(risk_level),
     risk_color |-> RiskColor(risk_level),
     risk_factors |-> WithFavorable(factors),
     recommendations |-> WithFavorableRec(factors, recs),
     lulc_type |-> Get(lulc_classes, lulc_class, lulc_class)]

\* the level before the cap
RawRisk(lulc_class, hits) == BaseScore(lulc_class) + AddsOf(hits)

\* lines 361-388 on what lines 36-349 have fired
AssessHits(lulc_class, hits) ==
    RiskDict(lulc_class, CapRisk(RawRisk(lulc_class, hits)),
             FactorsOf(hits), RecsOf(hits))

\* assess_risk(lulc_class, weather_data, change_stats)
assess_risk(lulc_class, weather_data, change_stats) ==
    AssessHits(lulc_class, Hits(lulc_class, weather_data, change_stats))

\* ------------------------------------------------------------------------
\* State
\* ------------------------------------------------------------------------
VARIABLES
    analyzer,   \* the RealChangeDetectionAnalyzer instance in use
    bands1,     \* the caller's T1 band mapping, or None
    bands2,     \* the caller's T2 band mapping, or None
    image1,     \* the caller's T1 colour image, or None
    image2,     \* the caller's T2 colour image, or None
    results,    \* outcome of the latest call
    first,      \* outcome of the first call
    in1,        \* bands1 as the caller built it
    in2,        \* bands2 as the caller built it
    calls,      \* number of calls made
    argA,       \* first argument of a function called on its own, or None
    argB,       \* its second argument, or None
    argC,       \* its third argument, or None
    indexOut,   \* the function called on its own and what it returned
    fetched,    \* what the fetcher gave the latest change-analysis request
    invoked,    \* the engine operations that request invoked, in order
    session,    \* st.session_state['change_detection_results']
    geeModule,  \* gee_fetcher.py as loaded: EE_AVAILABLE, _gee_fetcher
    geeCall     \* the latest call on the fetcher module and its outcome

vars == <<analyzer, bands1, bands2, image1, image2, results, first,
          in1, in2, calls, argA, argB, argC, indexOut, fetched, invoked, session,
          geeModule, geeCall>>

appVars == <<fetched, invoked, session>>

geeVars == <<geeModule, geeCall>>

\* ------------------------------------------------------------------------
\* Inputs
\* ------------------------------------------------------------------------
Shapes == {s \in (1..MaxPixels) \X (1..MaxPixels) : s[1] * s[2] <= MaxPixels}

\* <<nir, red, swir>> samples of a pixel
Pixels == {<<0, 0, 0>>, <<Big, Big, Big>>, <<Big, 3 * Big, 0>>}

\* pixels of the wider one-row scenes
RowPixelsT1 == {<<Big, Big, Big>>, <<Big, 3 * Big, 0>>}
RowPixelsT2 == {<<Big, Big, Big>>, <<Big, Big + 1, Big>>, <<Big, 3 * Big, Big>>}

\* T2 pixels that put a change or a normalised magnitude on a cut point when
\* the T1 pixel is <<Big, Big, Big>> (every index 0): NDVI of -1 and -4
\* units, and indices of exactly +0.1 and -0.1 and one beyond 0.1
CutPixels ==
    {<<Big, Big, Big>>, <<Big, Big + 1, Big>>, <<Big, Big + 4, Big>>,
     <<11, 9, 9>>, <<9, 11, 11>>, <<12, 9, 9>>}

BandSet(s, f) ==
    [nir |-> Raster(s[1], s[2], [p \in 1..(s[1] * s[2]) |-> f[p][1]]),
     red |-> Raster(s[1], s[2], [p \in 1..(s[1] * s[2]) |-> f[p][2]]),
     swir |-> Raster(s[1], s[2], [p \in 1..(s[1] * s[2]) |-> f[p][3]])]

BandSets(pixels) ==
    UNION {{BandSet(s, f) : f \in [1..(s[1] * s[2]) -> pixels]} : s \in Shapes}

RowBandSets(w, pixels) == {BandSet(<<1, w>>, f) : f \in [1..w -> pixels]}

\* <<red, green, blue>> of a pixel of an 8-bit colour image
Colours == {<<0, 0, 0>>, <<200, 100, 50>>, <<10, 250, 255>>}

Images ==
    UNION {{Image(s[1], s[2], f) : f \in [1..(s[1] * s[2]) -> Colours]} :
           s \in Shapes}

\* samples handed to the index functions directly
IndexSamples == {-1, 0, 1, 5}

RasterPairs ==
    UNION {{<<Raster(s[1], s[2], f), Raster(s[1], s[2], g)>> :
               f \in [1..(s[1] * s[2]) -> IndexSamples],
               g \in [1..(s[1] * s[2]) -> IndexSamples]} : s \in Shapes}

NoIndexCall ==
    argA = None /\ argB = None /\ argC = None /\ indexOut = None
NoAppCall == fetched = None /\ invoked = << >> /\ session = None
NoGeeCall == geeModule = None /\ geeCall = None
NoEngineCall ==
    /\ analyzer = NewAnalyzer
    /\ bands1 = None /\ bands2 = None /\ in1 = None /\ in2 = None
    /\ image1 = None /\ image2 = None
    /\ results = None /\ first = None /\ calls = 0

\* the caller holds two band sets
InitBands ==
    /\ analyzer = NewAnalyzer
    /\ bands1 \in BandSets(Pixels)
    /\ bands2 \in BandSets(Pixels)
    /\ in1 = bands1 /\ in2 = bands2
    /\ image1 = None /\ image2 = None
    /\ results = None /\ first = None /\ calls = 0
    /\ NoIndexCall
    /\ NoAppCall
    /\ NoGeeCall

\* the caller holds two one-row band sets of the same width
InitRows ==
    /\ analyzer = NewAnalyzer
    /\ \E w \in 1..MaxWidth :
          /\ bands1 \in RowBandSets(w, RowPixelsT1)
          /\ bands2 \in RowBandSets(w, RowPixelsT2)
    /\ in1 = bands1 /\ in2 = bands2
    /\ image1 = None /\ image2 = None
    /\ results = None /\ first = None /\ calls = 0
    /\ NoIndexCall
    /\ NoAppCall
    /\ NoGeeCall

\* the caller holds two one-row band sets of the same width, T1 with every
\* index 0 and T2 on the cut points
InitCutPoints ==
    /\ analyzer = NewAnalyzer
    /\ \E w \in 1..MaxWidth :
          /\ bands1 \in RowBandSets(w, {<<Big, Big, Big>>})
          /\ bands2 \in RowBandSets(w, CutPixels)
    /\ in1 = bands1 /\ in2 = bands2
    /\ image1 = None /\ image2 = None
    /\ results = None /\ first = None /\ calls = 0
    /\ NoIndexCall
    /\ NoAppCall
    /\ NoGeeCall

\* the caller holds two colour images
InitImages ==
    /\ analyzer = NewAnalyzer
    /\ bands1 = None /\ bands2 = None /\ in1 = None /\ in2 = None
    /\ image1 \in Images
    /\ image2 \in Images
    /\ results = None /\ first = None /\ calls = 0
    /\ NoIndexCall
    /\ NoAppCall
    /\ NoGeeCall

Init == InitBands \/ InitRows \/ InitCutPoints \/ InitImages

\* ------------------------------------------------------------------------
\* Operations of the analyzer
\* ------------------------------------------------------------------------
\* analyzer.detect_changes_with_real_bands(bands1, bands2) on the caller's
\* own mappings
CallRealBands ==
    /\ bands1 # None
    /\ calls < MaxCalls
    /\ \E r \in {detect_changes_with_real_bands(bands1, bands2)} :
          /\ results' = r.out
          /\ bands2' = r.bands2
    /\ first' = IF calls = 0 THEN results' ELSE first
    /\ calls' = calls + 1
    /\ UNCHANGED appVars
    /\ UNCHANGED geeVars
    /\ UNCHANGED <<analyzer, bands1, image1, image2, in1, in2,
                   argA, argB, argC, indexOut>>

\* a fresh analyzer called on copies of the inputs as first built
CallRealBandsFresh ==
    /\ bands1 # None
    /\ calls < MaxCalls
    /\ analyzer' = NewAnalyzer
    /\ results' = detect_changes_with_real_bands(in1, in2).out
    /\ first' = IF calls = 0 THEN results' ELSE first
    /\ calls' = calls + 1
    /\ UNCHANGED appVars
    /\ UNCHANGED geeVars
    /\ UNCHANGED <<bands1, bands2, image1, image2, in1, in2,
                   argA, argB, argC, indexOut>>

\* analyzer.detect_changes(image1, image2)
CallLegacy ==
    /\ image1 # None
    /\ calls < MaxCalls
    /\ results' = detect_changes(image1, image2)
    /\ first' = IF calls = 0 THEN results' ELSE first
    /\ calls' = calls + 1
    /\ UNCHANGED appVars
    /\ UNCHANGED geeVars
    /\ UNCHANGED <<analyzer, bands1, bands2, image1, image2, in1, in2,
                   argA, argB, argC, indexOut>>

Next == CallRealBands \/ CallRealBandsFresh \/ CallLegacy

Spec == Init /\ [][Next]_vars

\* ------------------------------------------------------------------------
\* The engine called on inputs it has to reject
\* ------------------------------------------------------------------------
\* a mapping cut down to some of its keys
Restrict(bands, keys) == [key \in keys |-> bands[key]]

\* shapes without a pixel
ZeroShapes == {s \in (0..MaxPixels) \X (0..MaxPixels) : s[1] * s[2] = 0}

ZeroBandSets == {BandSet(s, << >>) : s \in ZeroShapes}

\* the caller holds two band mappings, at least one of them short of a key
InitMissingKeys ==
    /\ analyzer = NewAnalyzer
    /\ \E b1 \in BandSets({<<Big, 3 * Big, 0>>}),
          b2 \in BandSets({<<Big, Big, Big>>}),
          k1 \in SUBSET RequiredKeys, k2 \in SUBSET RequiredKeys :
          /\ k1 # RequiredKeys \/ k2 # RequiredKeys
          /\ bands1 = Restrict(b1, k1)
          /\ bands2 = Restrict(b2, k2)
    /\ in1 = bands1 /\ in2 = bands2
    /\ image1 = None /\ image2 = None
    /\ results = None /\ first = None /\ calls = 0
    /\ NoIndexCall
    /\ NoAppCall
    /\ NoGeeCall

\* the caller holds two complete band sets, at least one without a pixel
InitZeroSized ==
    /\ analyzer = NewAnalyzer
    /\ bands1 \in ZeroBandSets \cup BandSets({<<Big, 3 * Big, 0>>})
    /\ bands2 \in ZeroBandSets \cup BandSets({<<Big, Big, Big>>})
    /\ bands1 \in ZeroBandSets \/ bands2 \in ZeroBandSets
    /\ in1 = bands1 /\ in2 = bands2
    /\ image1 = None /\ image2 = None
    /\ results = None /\ first = None /\ calls = 0
    /\ NoIndexCall
    /\ NoAppCall
    /\ NoGeeCall

InitInvalid == InitMissingKeys \/ InitZeroSized

NextInvalid == CallRealBands \/ CallRealBandsFresh

SpecInvalid == InitInvalid /\ [][NextInvalid]_vars

\* ------------------------------------------------------------------------
\* The index functions called on their own
\* ------------------------------------------------------------------------
InitIndex ==
    /\ NoEngineCall
    /\ NoAppCall
    /\ NoGeeCall
    /\ \E pair \in RasterPairs : argA = pair[1] /\ argB = pair[2]
    /\ argC = None
    /\ indexOut = None

CallNdvi ==
    /\ indexOut = None
    /\ indexOut' = [fn |-> "ndvi", value |-> calculate_ndvi(argA, argB)]
    /\ UNCHANGED appVars
    /\ UNCHANGED geeVars
    /\ UNCHANGED <<analyzer, bands1, bands2, image1, image2, results, first,
                   in1, in2, calls, argA, argB, argC>>

CallNdmi ==
    /\ indexOut = None
    /\ indexOut' = [fn |-> "ndmi", value |-> calculate_ndmi(argA, argB)]
    /\ UNCHANGED appVars
    /\ UNCHANGED geeVars
    /\ UNCHANGED <<analyzer, bands1, bands2, image1, image2, results, first,
                   in1, in2, calls, argA, argB, argC>>

CallNdbi ==
    /\ indexOut = None
    /\ indexOut' = [fn |-> "ndbi", value |-> calculate_ndbi(argA, argB)]
    /\ UNCHANGED appVars
    /\ UNCHANGED geeVars
    /\ UNCHANGED <<analyzer, bands1, bands2, image1, image2, results, first,
                   in1, in2, calls, argA, argB, argC>>

NextIndex == CallNdvi \/ CallNdmi \/ CallNdbi

SpecIndex == InitIndex /\ [][NextIndex]_vars

\* ------------------------------------------------------------------------
\* The application's change-analysis request (app.py, lines 699-765)
\* ------------------------------------------------------------------------
engineVars == <<analyzer, bands1, bands2, image1, image2, results, first,
                in1, in2, calls, argA, argB, argC, indexOut>>

\* what get_real_bands can return: None or a mapping of 8-bit rasters
AppBands1 == BandSets({<<120, 60, 30>>}) \cup {None}
AppBands2 == BandSets({<<60, 120, 90>>}) \cup {None}

\* what fetch_temporal_pair can return for one date: None or an image
AppImages == {i \in Images : i.h * i.w = 1} \cup {None}

\* the metadata fetch_temporal_pair returns with two images
Metadata == [data_source |-> "Landsat 8/9"]

\* the real path taken whenever one band set is there
UseRealBandsEither(b1, b2) == b1 # None \/ b2 # None

\* line 733, `if bands1 and bands2`: neither None nor an empty mapping
UseRealBands(b1, b2) ==
    /\ b1 # None /\ DOMAIN b1 # {}
    /\ b2 # None /\ DOMAIN b2 # {}

\* a dict with the entries of extra set on it
Extend(value, extra) ==
    [key \in DOMAIN value \cup DOMAIN extra |->
        IF key \in DOMAIN extra THEN extra[key] ELSE value[key]]

\* one invocation of an engine operation
Invocation(op, a, b) == [op |-> op, args |-> <<a, b>>]

\* what the request keeps of the fetcher's answers; an answer never asked
\* for is None
Fetched(available, h, c, b1, b2) ==
    [available |-> available, historical_img |-> h, current_img |-> c,
     bands1 |-> b1, bands2 |-> b2]

\* lines 733-751: the engine operation chosen and what it leaves in the
\* session; an exception is caught at line 763 and stores nothing
RunEngine(h, c, b1, b2) ==
    IF UseRealBands(b1, b2)
    THEN \E r \in {detect_changes_with_real_bands(b1, b2).out} :
            /\ invoked' = <<Invocation("detect_changes_with_real_bands",
                                       b1, b2)>>
            /\ session' = IF r.status = "ok"
                          THEN Extend(r.value,
                                      [metadata |-> Metadata,
                                       data_mode |-> "Real Satellite Data"])
                          ELSE session
    ELSE \E r \in {detect_changes(h, c)} :
            /\ invoked' = <<Invocation("detect_changes", h, c)>>
            /\ session' = IF r.status = "ok" THEN r.value ELSE session

\* the "Analyze Change Detection" button: the whole handler, the fetcher's
\* answers drawn from what it can return
AnalyzeChangeDetection ==
    /\ \/ /\ fetched' = Fetched(FALSE, None, None, None, None)
          /\ invoked' = << >>
          /\ UNCHANGED session
       \/ \E h \in AppImages, c \in AppImages :
             /\ h = None \/ c = None
             /\ fetched' = Fetched(TRUE, h, c, None, None)
             /\ invoked' = << >>
             /\ UNCHANGED session
       \/ \E h \in AppImages \ {None}, c \in AppImages \ {None},
             b1 \in AppBands1, b2 \in AppBands2 :
             /\ fetched' = Fetched(TRUE, h, c, b1, b2)
             /\ RunEngine(h, c, b1, b2)
    /\ UNCHANGED engineVars
    /\ UNCHANGED geeVars

\* the "Clear" button
ClearResults ==
    /\ session # None
    /\ session' = None
    /\ UNCHANGED <<fetched, invoked>>
    /\ UNCHANGED engineVars
    /\ UNCHANGED geeVars

InitApp == NoEngineCall /\ NoIndexCall /\ NoAppCall /\ NoGeeCall

NextApp == AnalyzeChangeDetection \/ ClearResults

SpecApp == InitApp /\ [][NextApp]_vars

\* ------------------------------------------------------------------------
\* get_change_interpretation called on its own
\* ------------------------------------------------------------------------
\* a percentage at a threshold and one unit (1e-6 percent) above it
Around(percent) == {percent * PCT, percent * PCT + 1}

\* the statistics of a result as the interpretation reads them
StatsSamples ==
    {[ndvi |-> [vegetation_loss |-> vl, vegetation_gain |-> vg],
      ndbi |-> [urban_expansion |-> ue],
      ndmi |-> [moisture_loss |-> ml, moisture_gain |-> mg],
      cva |-> [significant_change_percent |-> sc,
               moderate_change_percent |-> mc,
               no_change_percent |-> 100 * PCT - sc - mc]] :
        vl \in Around(10) \cup {0}, vg \in Around(10), ue \in Around(5),
        ml \in Around(15) \cup {0}, mg \in Around(15),
        sc \in Around(20), mc \in Around(30)}

\* results of the real path and of the legacy path
ResultSamples ==
    {[statistics |-> st] : st \in StatsSamples}
        \cup {[statistics |-> st, warning |-> SimulatedWarning] :
                 st \in StatsSamples}

InitInterpretation ==
    /\ NoEngineCall
    /\ NoAppCall
    /\ NoGeeCall
    /\ argA \in ResultSamples
    /\ argB = None
    /\ argC = None
    /\ indexOut = None

CallInterpretation ==
    /\ indexOut = None
    /\ indexOut' = [fn |-> "interpretation",
                    value |-> get_change_interpretation(argA)]
    /\ UNCHANGED appVars
    /\ UNCHANGED geeVars
    /\ UNCHANGED <<analyzer, bands1, bands2, image1, image2, results, first,
                   in1, in2, calls, argA, argB, argC>>

NextInterpretation == CallInterpretation

SpecInterpretation == InitInterpretation /\ [][NextInterpretation]_vars

\* ------------------------------------------------------------------------
\* simulate_bands_from_rgb called on its own
\* ------------------------------------------------------------------------
\* <<red, green, blue>> of a pixel: dark, mid, bright enough to clip, a
\* fractional sum and a sum that is a whole number
SimColours ==
    {<<0, 0, 0>>, <<200, 100, 50>>, <<10, 250, 255>>, <<255, 255, 255>>,
     <<3, 7, 1>>, <<1, 5, 24>>}

SimImages ==
    UNION {{Image(s[1], s[2], f) : f \in [1..(s[1] * s[2]) -> SimColours]} :
           s \in Shapes}

InitSimulate ==
    /\ NoEngineCall
    /\ NoAppCall
    /\ NoGeeCall
    /\ argA \in SimImages
    /\ argB = None
    /\ argC = None
    /\ indexOut = None

CallSimulate ==
    /\ indexOut = None
    /\ indexOut' = [fn |-> "simulate",
                    value |-> simulate_bands_from_rgb(argA)]
    /\ UNCHANGED appVars
    /\ UNCHANGED geeVars
    /\ UNCHANGED <<analyzer, bands1, bands2, image1, image2, results, first,
                   in1, in2, calls, argA, argB, argC>>

NextSimulate == CallSimulate

SpecSimulate == InitSimulate /\ [][NextSimulate]_vars

\* ------------------------------------------------------------------------
\* The fetcher module in one process
\* ------------------------------------------------------------------------
\* the arrays a composite download can give
FetchedImages == AppImages \ {None}

\* the (lat, lon) points asked for
Locations == {<<17, 78>>, <<-33, 151>>}

\* one date handed to _get_composite: whether it parses, whether Earth
\* Engine gives a Landsat and a Sentinel-2 composite for it, and the array
\* downloaded
Envs ==
    [date_ok : BOOLEAN, landsat : BOOLEAN, sentinel : BOOLEAN,
     image : FetchedImages]

\* the module as imported: no fetcher yet
InitFetcher ==
    /\ NoEngineCall
    /\ NoIndexCall
    /\ NoAppCall
    /\ geeModule \in {[EE_AVAILABLE |-> a, gee_fetcher |-> None,
                       constructed |-> 0] : a \in BOOLEAN}
    /\ geeCall = None

\* a call of get_gee_fetcher(); calls counts them
CallGetGeeFetcher ==
    /\ calls < MaxCalls
    /\ \E init_ok \in BOOLEAN :
          \E r \in {get_gee_fetcher(geeModule, init_ok)} :
             /\ geeModule' = r.module
             /\ geeCall' = [op |-> "get_gee_fetcher", returned |-> r.returned]
    /\ calls' = calls + 1
    /\ UNCHANGED appVars
    /\ UNCHANGED <<analyzer, bands1, bands2, image1, image2, results, first,
                   in1, in2, argA, argB, argC, indexOut>>

\* a call of fetch_temporal_pair on the fetcher of the module
CallFetchTemporalPair ==
    /\ geeModule.gee_fetcher # None
    /\ \E loc \in Locations, region_ok \in BOOLEAN, env1 \in Envs,
          env2 \in Envs :
          \E r \in {fetch_temporal_pair(geeModule.gee_fetcher, loc,
                                        region_ok, env1, env2)} :
             /\ geeModule' = [geeModule EXCEPT !.gee_fetcher = r.self]
             /\ geeCall' = [op |-> "fetch_temporal_pair", out |-> r.out,
                            attempts |-> r.attempts]
    /\ UNCHANGED appVars
    /\ UNCHANGED engineVars

NextFetcher == CallGetGeeFetcher \/ CallFetchTemporalPair

SpecFetcher == InitFetcher /\ [][NextFetcher]_vars

\* ------------------------------------------------------------------------
\* assess_risk called on its own
\* ------------------------------------------------------------------------
\* the ten classes of the table and one the table does not have
LulcClasses == DOMAIN land_cover_vulnerability \cup {"Desert"}

\* readings on both sides of every threshold of the code: degrees Celsius,
\* percent, metres per second, millimetres
TempSamples == {-11, -5, 20, 33, 36, 39, 41}
HumiditySamples == {10, 30, 45, 60, 90}
CloudSamples == {0, 71}

\* the wind keys of a reading; wind_gust may be missing
WindSamples ==
    {<< >>, [wind_speed |-> 4], [wind_speed |-> 11], [wind_speed |-> 16],
     [wind_speed |-> 19], [wind_speed |-> 8, wind_gust |-> 21]}

\* the rainfall keys of a reading
RainSamples ==
    {<< >>, [rainfall_3h |-> 5], [rainfall_1h |-> 21, rainfall_3h |-> 21],
     [rainfall_1h |-> 0, rainfall_3h |-> 61],
     [rainfall_1h |-> 41, rainfall_3h |-> 41]}

\* weather_data: a mapping with some or none of the keys read
WeatherSamples ==
    {[temperature |-> t, humidity |-> h, cloudiness |-> c] @@ w @@ r :
        t \in TempSamples, h \in HumiditySamples, c \in CloudSamples,
        w \in WindSamples, r \in RainSamples}
    \cup {<< >>}

\* change_stats: None, a mapping without readings, and results with losses
\* between and above the thresholds
ChangeSamples ==
    {None,
     [statistics |-> << >>],
     [statistics |-> [ndvi |-> [vegetation_loss |-> 11 * PCT],
                      ndmi |-> [moisture_loss |-> 13 * PCT],
                      ndbi |-> [urban_expansion |-> 15 * PCT]]],
     [statistics |-> [ndvi |-> [vegetation_loss |-> 26 * PCT],
                      ndmi |-> [moisture_loss |-> 26 * PCT],
                      ndbi |-> [urban_expansion |-> 16 * PCT]]]}

InitRisk ==
    /\ NoEngineCall
    /\ NoAppCall
    /\ NoGeeCall
    /\ argA \in LulcClasses
    /\ argB \in WeatherSamples
    /\ argC \in ChangeSamples
    /\ indexOut = None

CallAssessRisk ==
    /\ indexOut = None
    /\ indexOut' = [fn |-> "assess_risk",
                    value |-> assess_risk(argA, argB, argC)]
    /\ UNCHANGED appVars
    /\ UNCHANGED geeVars
    /\ UNCHANGED <<analyzer, bands1, bands2, image1, image2, results, first,
                   in1, in2, calls, argA, argB, argC>>

NextRisk == CallAssessRisk

SpecRisk == InitRisk /\ [][NextRisk]_vars

\* ------------------------------------------------------------------------
\* Properties
\* ------------------------------------------------------------------------
NonNegative(r) == \A p \in 1..Size(r) : r.px[p] >= 0
Ok == results.status = "ok"
Stats == results.value.statistics
\* the raw change-vector magnitude of the latest result
RawMagnitude ==
    [p \in 1..Size(results.value.cva_magnitude) |->
        Magnitude(results.value.ndvi_change.px[p],
                  results.value.ndmi_change.px[p],
                  results.value.ndbi_change.px[p])]
RawRange == SeqMax(RawMagnitude) - SeqMin(RawMagnitude)
Flat == RawRange = 0
NormN == [p \in 1..Size(results.value.cva_magnitude) |->
             results.value.cva_magnitude.px[p].n]
NormD == results.value.cva_magnitude.px[1].d
\* shape of the T1 input of the session
T1Shape == IF in1 # None THEN Shape(in1["nir"]) ELSE <<image1.h, image1.w>>
PctTol == 2
NormTolInv == 1000000

\* C1: on rasters of non-negative samples every element of the raster that
\* calculate_ndvi, calculate_ndmi or calculate_ndbi returns is a finite
\* number (no NaN, no infinity) within [-1, 1].
C1_IndexInRange ==
    (indexOut # None /\ NonNegative(argA) /\ NonNegative(argB)) =>
        \A p \in 1..Size(indexOut.value) :
            /\ indexOut.value.px[p].k = "num"
            /\ indexOut.value.px[p].v >= -SCALE
            /\ indexOut.value.px[p].v <= SCALE

C1_Witness ==
    /\ indexOut # None /\ NonNegative(argA) /\ NonNegative(argB)
    /\ \E p \in 1..Size(argA) : argA.px[p] + argB.px[p] = 0
    /\ \E q \in 1..Size(argA) : indexOut.value.px[q].v = -SCALE

\* C2: a pixel whose denominator (the sum of the two samples) is zero gets
\* exactly 0.0 in each index function, and the call returns a raster of the
\* input shape (nothing is raised for it).
C2_ZeroDenominatorIsZero ==
    indexOut # None =>
        /\ Shape(indexOut.value) = Shape(argA)
        /\ \A p \in 1..Size(argA) :
              argA.px[p] + argB.px[p] = 0 => indexOut.value.px[p] = Num(0)

C2_Witness ==
    /\ indexOut # None /\ indexOut.fn = "ndvi"
    /\ \E p \in 1..Size(argA) : argA.px[p] = 0 /\ argB.px[p] = 0
    /\ \E q \in 1..Size(argA) : argA.px[q] # 0 /\ argA.px[q] + argB.px[q] = 0

\* C3: at a pixel with a non-zero denominator each index function returns
\* (first - second) / (first + second) of its two arguments, to the nearest
\* representable value; NIR 0.5 and Red 0.1 (samples 5 and 1) give 0.6667.
C3_IndexIsNormalizedDifference ==
    indexOut # None =>
        \A p \in 1..Size(argA) :
            LET a == argA.px[p]
                b == argB.px[p]
                x == indexOut.value.px[p]
            IN a + b # 0 =>
                 /\ x.k = "num"
                 /\ 2 * Abs(x.v * (a + b) - (a - b) * SCALE) <= Abs(a + b)
                 /\ (a = 5 /\ b = 1) => RoundDiv(x.v, 10000) = 6667

C3_Witness ==
    /\ indexOut # None /\ indexOut.fn = "ndvi"
    /\ Size(argA) >= 2
    /\ \A p \in 1..Size(argA) : argA.px[p] = 5 /\ argB.px[p] = 1

\* C4: detect_changes_with_real_bands(B, B) returns, without error, three
\* all-zero change rasters, an all-zero cva_magnitude, no_change_percent 100
\* and moderate and significant percentages 0.
C4_IdenticalBandSets ==
    (in1 # None /\ in1 = in2 /\ calls > 0) =>
        /\ Ok
        /\ \A p \in 1..Size(in1["nir"]) :
              /\ results.value.ndvi_change.px[p] = 0
              /\ results.value.ndmi_change.px[p] = 0
              /\ results.value.ndbi_change.px[p] = 0
              /\ results.value.cva_magnitude.px[p].n = 0
              /\ results.value.cva_magnitude.px[p].d > 0
        /\ Shape(results.value.cva_magnitude) = Shape(in1["nir"])
        /\ Stats.cva.no_change_percent = 100 * PCT
        /\ Stats.cva.moderate_change_percent = 0
        /\ Stats.cva.significant_change_percent = 0

C4_Witness ==
    /\ in1 # None /\ in1 = in2 /\ calls > 0 /\ Ok
    /\ \E p \in 1..Size(in1["nir"]) :
          in1["nir"].px[p] = 0 /\ in1["red"].px[p] = 0 /\ in1["swir"].px[p] = 0
    /\ \E q \in 1..Size(in1["nir"]) : in1["red"].px[q] = 3 * Big

\* C5: in every returned result the three tier percentages are those of
\* three pixel counts that add up to the number of pixels, and they sum to
\* 100 within the rounding tolerance.
C5_TiersPartition ==
    Ok =>
        LET total == Size(results.value.cva_magnitude)
        IN /\ \E cn \in 0..total : \E cm \in 0..(total - cn) :
                /\ Stats.cva.no_change_percent = Pct(cn, total)
                /\ Stats.cva.moderate_change_percent = Pct(cm, total)
                /\ Stats.cva.significant_change_percent =
                       Pct(total - cn - cm, total)
           /\ Abs(Stats.cva.no_change_percent
                  + Stats.cva.moderate_change_percent
                  + Stats.cva.significant_change_percent
                  - 100 * PCT) <= PctTol

C5_Witness ==
    /\ Ok
    /\ Stats.cva.no_change_percent > 0
    /\ Stats.cva.moderate_change_percent > 0
    /\ Stats.cva.significant_change_percent > 0

\* C6 as stated: whenever the raw magnitude is not the same at every pixel,
\* cva_magnitude lies in [0, 1], its minimum is 0.0 and its maximum is 1.0
\* to within 1e-6.
C6_MaxIsOne ==
    (Ok /\ ~Flat) =>
        /\ \A p \in 1..Size(results.value.cva_magnitude) :
              NormN[p] >= 0 /\ NormN[p] <= NormD
        /\ SeqMin(NormN) = 0
        /\ NormD > 0
        /\ (NormD - SeqMax(NormN)) * NormTolInv <= NormD

\* C6 amended: whenever the raw magnitude has a range R > 0, cva_magnitude
\* lies in [0, 1), its minimum is 0.0 and its maximum is R / (R + 1e-8); the
\* maximum is within 1e-6 of 1.0 exactly when R >= (1e6 - 1) * 1e-8.
C6_MaxIsRangeOverRangePlusEps ==
    (Ok /\ ~Flat) =>
        /\ \A p \in 1..Size(results.value.cva_magnitude) :
              /\ NormN[p] >= 0 /\ NormN[p] < NormD
              /\ results.value.cva_magnitude.px[p].d = RawRange + Eps
        /\ SeqMin(NormN) = 0
        /\ SeqMax(NormN) = RawRange
        /\ ((NormD - SeqMax(NormN)) * NormTolInv <= NormD)
              <=> (RawRange >= (NormTolInv - 1) * Eps)

C6_Witness ==
    /\ Ok /\ ~Flat
    /\ RawRange = Eps
    /\ 2 * SeqMax(NormN) = NormD

\* C7: when the raw magnitude is the same at every pixel, zero or not,
\* every value of cva_magnitude is exactly 0.0 (a finite quotient with
\* numerator 0 and a non-zero denominator).
C7_FlatSceneAllZero ==
    (Ok /\ Flat) =>
        \A p \in 1..Size(results.value.cva_magnitude) :
            /\ results.value.cva_magnitude.px[p].n = 0
            /\ results.value.cva_magnitude.px[p].d > 0

C7_Witness ==
    /\ Ok /\ Flat
    /\ Size(results.value.cva_magnitude) >= 2
    /\ RawMagnitude[1] > 0

\* C8: every raster of a returned result (the three change rasters and
\* cva_magnitude) has the shape of the T1 input, on band sets and on colour
\* images, whatever the shape of the T2 input.
C8_ResultHasT1Shape ==
    Ok =>
        /\ Shape(results.value.ndvi_change) = T1Shape
        /\ Shape(results.value.ndmi_change) = T1Shape
        /\ Shape(results.value.ndbi_change) = T1Shape
        /\ Shape(results.value.cva_magnitude) = T1Shape

C8_Witness ==
    /\ Ok /\ in1 # None
    /\ Shape(in1["nir"]) = <<1, 2>>
    /\ Shape(in2["nir"]) = <<2, 1>>
    /\ in2["red"].px[1] # in2["red"].px[2]

\* C9: a second call with the same inputs, on the same analyzer and the
\* same mappings or on a fresh analyzer and copies of the inputs, returns
\* the rasters and statistics of the first call.
C9_SecondCallSameResult ==
    calls >= 2 => results = first

C9_Witness ==
    /\ calls >= 2 /\ Ok
    /\ in1 # None /\ bands2 # in2
    /\ Size(in2["nir"]) > Size(in1["nir"])

\* C10: after a call of detect_changes_with_real_bands both input mappings
\* are what the caller passed in.
C10_InputsUnchanged ==
    (in1 # None /\ calls > 0) => (bands1 = in1 /\ bands2 = in2)

\* C11: every result returned by the legacy detect_changes carries the
\* simulated/demo data_source and a non-empty warning string; every result
\* returned by detect_changes_with_real_bands called directly carries the
\* real-satellite data_source and no warning field.
C11_ProvenanceTags ==
    Ok =>
        IF image1 # None
        THEN /\ results.value.data_source
                    = "Simulated Bands (Demo Mode - NOT ACCURATE)"
             /\ "warning" \in DOMAIN results.value
             /\ results.value.warning # ""
        ELSE /\ results.value.data_source
                    = "Real Satellite Bands (Landsat/Sentinel)"
             /\ "warning" \notin DOMAIN results.value

C11_Witness ==
    /\ Ok /\ image1 # None
    /\ <<image1.h, image1.w>> # <<image2.h, image2.w>>
    /\ results.value.warning = SimulatedWarning

\* C12: when nir, red or swir is absent from either input mapping,
\* detect_changes_with_real_bands raises an error to the caller and returns
\* nothing: no result dict, populated in part or from a defaulted band.
C12_MissingKeyRaises ==
    (calls > 0 /\ (~(RequiredKeys \subseteq DOMAIN in1)
                   \/ ~(RequiredKeys \subseteq DOMAIN in2)))
        => /\ results.status = "raised"
           /\ results.error = "KeyError"
           /\ "value" \notin DOMAIN results

C12_Witness ==
    /\ calls > 0
    /\ DOMAIN in1 = RequiredKeys
    /\ DOMAIN in2 = {"nir", "red"}
    /\ Shape(in1["nir"]) # Shape(in2["nir"])
    /\ results = Raised("KeyError")

\* C13: on rasters without a pixel detect_changes_with_real_bands raises an
\* error to the caller; it returns no result with substituted statistics.
C13_ZeroSizedRaises ==
    (calls > 0 /\ DOMAIN in1 = RequiredKeys /\ DOMAIN in2 = RequiredKeys
        /\ (Size(in1["nir"]) = 0 \/ Size(in2["nir"]) = 0))
        => /\ results.status = "raised"
           /\ "value" \notin DOMAIN results

C13_Witness ==
    /\ calls > 0
    /\ DOMAIN in1 = RequiredKeys /\ DOMAIN in2 = RequiredKeys
    /\ Shape(in1["nir"]) = Shape(in2["nir"])
    /\ Size(in1["nir"]) = 0
    /\ results = Raised("ValueError")

\* C14: a change-analysis request invokes detect_changes_with_real_bands
\* only when get_real_bands gave both band sets; with the fetcher available
\* and both images fetched but a band set missing it invokes the legacy
\* detect_changes on the two fetched images; with the fetcher unavailable
\* or an image missing it invokes neither.
C14_EngineSelection ==
    fetched # None =>
        /\ (\E k \in 1..Len(invoked) :
               invoked[k].op = "detect_changes_with_real_bands")
              => (fetched.bands1 # None /\ fetched.bands2 # None)
        /\ (fetched.available /\ fetched.historical_img # None
              /\ fetched.current_img # None
              /\ (fetched.bands1 = None \/ fetched.bands2 = None))
              => invoked = <<Invocation("detect_changes",
                                        fetched.historical_img,
                                        fetched.current_img)>>
        /\ (~fetched.available \/ fetched.historical_img = None
              \/ fetched.current_img = None)
              => invoked = << >>

C14_Witness ==
    /\ fetched # None /\ fetched.available
    /\ fetched.bands1 # None /\ fetched.bands2 = None
    /\ Len(invoked) = 1 /\ invoked[1].op = "detect_changes"
    /\ session # None /\ "warning" \in DOMAIN session

\* the band mappings the engine works on in the latest call: the caller's
\* T1 mapping and the T2 mapping brought to T1's shape, or the bands
\* simulated from the two colour images
T1Bands ==
    IF in1 # None THEN in1 ELSE simulate_bands_from_rgb(image1)
T2Bands ==
    IF in1 # None THEN ResizedBands2(in1, in2)
    ELSE simulate_bands_from_rgb(ResizedImage2(image1, image2))

\* the raster of differences t2 - t1 of two index rasters
IndexDifference(t2, t1) == [p \in 1..Size(t1) |-> t2.px[p].v - t1.px[p].v]

InChangeRange(change) ==
    \A p \in 1..Size(change) :
        change.px[p] >= -2 * SCALE /\ change.px[p] <= 2 * SCALE

\* C15: each change raster of a returned result is, pixel by pixel, the
\* index of T2 minus the index of T1 (NDVI, NDMI, NDBI), and on
\* non-negative bands every change lies in [-2, 2].
C15_ChangeIsT2MinusT1 ==
    Ok =>
        /\ results.value.ndvi_change.px
              = IndexDifference(calculate_ndvi(T2Bands.nir, T2Bands.red),
                                calculate_ndvi(T1Bands.nir, T1Bands.red))
        /\ results.value.ndmi_change.px
              = IndexDifference(calculate_ndmi(T2Bands.nir, T2Bands.swir),
                                calculate_ndmi(T1Bands.nir, T1Bands.swir))
        /\ results.value.ndbi_change.px
              = IndexDifference(calculate_ndbi(T2Bands.swir, T2Bands.nir),
                                calculate_ndbi(T1Bands.swir, T1Bands.nir))
        /\ InChangeRange(results.value.ndvi_change)
        /\ InChangeRange(results.value.ndmi_change)
        /\ InChangeRange(results.value.ndbi_change)

C15_Witness ==
    /\ Ok /\ in1 # None
    /\ Shape(in1["nir"]) # Shape(in2["nir"])
    /\ \E p \in 1..Size(results.value.ndvi_change) :
          /\ results.value.ndvi_change.px[p] < 0
          /\ results.value.ndmi_change.px[p] > 0
          /\ results.value.ndbi_change.px[p] < 0

\* the pixels of the latest result whose normalised magnitude n / d
\* satisfies a comparison with a cut point
PixelsWhere(Test(_, _)) ==
    {p \in 1..Size(results.value.cva_magnitude) : Test(NormN[p], NormD)}

TierPercent(pixels) ==
    Pct(Cardinality(pixels), Size(results.value.cva_magnitude))

\* C16: every pixel is counted in exactly one tier by its normalised
\* magnitude m: no-change iff m < 0.2, moderate iff 0.2 <= m < 0.5,
\* significant iff m >= 0.5; a pixel at exactly 0.2 is moderate, one at
\* exactly 0.5 is significant.
C16_TierByMagnitude ==
    Ok =>
        /\ NormD > 0
        /\ Stats.cva.no_change_percent
              = TierPercent(PixelsWhere(LAMBDA n, d : 5 * n < d))
        /\ Stats.cva.moderate_change_percent
              = TierPercent(PixelsWhere(LAMBDA n, d : 5 * n >= d /\ 2 * n < d))
        /\ Stats.cva.significant_change_percent
              = TierPercent(PixelsWhere(LAMBDA n, d : 2 * n >= d))

C16_Witness ==
    /\ Ok
    /\ PixelsWhere(LAMBDA n, d : 5 * n = d) # {}
    /\ PixelsWhere(LAMBDA n, d : 5 * n < d) # {}
    /\ PixelsWhere(LAMBDA n, d : 2 * n >= d) # {}
    /\ Stats.cva.moderate_change_percent = TierPercent({1})

\* the share, in percent, of the pixels of a change raster selected by a
\* comparison with 0.1 (10000000 units of 1e-8)
ShareWhere(change, Test(_)) ==
    Pct(Cardinality({p \in 1..Size(change) : Test(change.px[p])}),
        Size(results.value.cva_magnitude))

GainLossOf(change, gain, loss) ==
    /\ gain = ShareWhere(change, LAMBDA c : c > 10000000)
    /\ loss = ShareWhere(change, LAMBDA c : c < -10000000)
    /\ gain >= 0 /\ gain <= 100 * PCT
    /\ loss >= 0 /\ loss <= 100 * PCT
    /\ gain + loss <= 100 * PCT

\* C17: for each index the gain-type percentage is 100 times the share of
\* pixels whose change is strictly above +0.1 and the loss-type percentage
\* 100 times the share strictly below -0.1, over the total pixel count; each
\* lies in [0, 100] and gain + loss is at most 100 (percentages to 1e-6).
C17_GainLossShares ==
    Ok =>
        /\ GainLossOf(results.value.ndvi_change,
                      Stats.ndvi.vegetation_gain, Stats.ndvi.vegetation_loss)
        /\ GainLossOf(results.value.ndmi_change,
                      Stats.ndmi.moisture_gain, Stats.ndmi.moisture_loss)
        /\ GainLossOf(results.value.ndbi_change,
                      Stats.ndbi.urban_expansion, Stats.ndbi.urban_reduction)

C17_Witness ==
    /\ Ok
    /\ \E p, q, u \in 1..Size(results.value.ndvi_change) :
          /\ results.value.ndvi_change.px[p] = 10000000
          /\ results.value.ndvi_change.px[q] = -10000000
          /\ results.value.ndvi_change.px[u] > 10000000
    /\ Stats.ndvi.vegetation_gain > 0
    /\ Stats.ndvi.vegetation_gain < 34 * PCT
    /\ Stats.ndvi.vegetation_loss = 0
    /\ Stats.ndbi.urban_expansion = 0
    /\ Stats.ndbi.urban_reduction > 0

\* the interpretation returned has a paragraph of this kind
Has(kind) ==
    \E k \in 1..Len(indexOut.value) : indexOut.value[k].kind = kind

\* C18: get_change_interpretation applies its thresholds strictly: the
\* vegetation-loss finding iff vegetation_loss > 10, the urban-expansion
\* finding iff urban_expansion > 5, the moisture-depletion finding iff
\* moisture_loss > 15, the major-change finding iff
\* significant_change_percent > 20; a statistic equal to its threshold does
\* not give its finding.
C18_StrictThresholds ==
    indexOut # None =>
        /\ Has("Significant Vegetation Loss")
              <=> argA.statistics.ndvi.vegetation_loss > 10000000
        /\ Has("Urban Expansion Detected")
              <=> argA.statistics.ndbi.urban_expansion > 5000000
        /\ Has("Moisture Depletion")
              <=> argA.statistics.ndmi.moisture_loss > 15000000
        /\ Has("Major Environmental Change")
              <=> argA.statistics.cva.significant_change_percent > 20000000

C18_Witness ==
    /\ indexOut # None
    /\ argA.statistics.ndvi.vegetation_loss = 10000000
    /\ argA.statistics.ndbi.urban_expansion = 5000000
    /\ argA.statistics.ndmi.moisture_loss = 15000001
    /\ argA.statistics.cva.significant_change_percent = 20000000
    /\ ~Has("Significant Vegetation Loss")
    /\ ~Has("Urban Expansion Detected")
    /\ Has("Moisture Depletion")
    /\ ~Has("Major Environmental Change")

\* the place of a paragraph in the fixed order
Rank(kind) ==
    CASE kind = "warning" -> 1
      [] kind = "blank" -> 2
      [] kind \in {"Significant Vegetation Loss", "Vegetation Growth"} -> 3
      [] kind = "Urban Expansion Detected" -> 4
      [] kind \in {"Moisture Depletion", "Moisture Increase"} -> 5
      [] kind \in {"Major Environmental Change",
                   "Moderate Environmental Change",
                   "Stable Environment"} -> 6
      [] OTHER -> 0

\* C19: the findings come in the fixed order warning (iff the result has a
\* 'warning' field), at most one vegetation finding (loss before growth),
\* at most one urban finding, at most one moisture finding (depletion
\* before increase), exactly one overall finding (major, else moderate if
\* moderate_change_percent > 30, else stable); the text is never empty and
\* never the fallback 'No significant changes detected'.
C19_FixedOrder ==
    indexOut # None =>
        LET out == indexOut.value
            st == argA.statistics
        IN /\ Len(out) >= 1
           /\ \A k \in 1..Len(out) : Rank(out[k].kind) > 0
           /\ \A k \in 1..(Len(out) - 1) :
                 Rank(out[k].kind) < Rank(out[k + 1].kind)
           /\ Rank(out[Len(out)].kind) = 6
           /\ Has("warning") <=> "warning" \in DOMAIN argA
           /\ Has("warning") => out[1].kind = "warning"
           /\ Has("Vegetation Growth")
                 <=> (st.ndvi.vegetation_loss <= 10000000
                      /\ st.ndvi.vegetation_gain > 10000000)
           /\ Has("Moisture Increase")
                 <=> (st.ndmi.moisture_loss <= 15000000
                      /\ st.ndmi.moisture_gain > 15000000)
           /\ Has("Moderate Environmental Change")
                 <=> (st.cva.significant_change_percent <= 20000000
                      /\ st.cva.moderate_change_percent > 30000000)
           /\ Has("Stable Environment")
                 <=> (st.cva.significant_change_percent <= 20000000
                      /\ st.cva.moderate_change_percent <= 30000000)

C19_Witness ==
    /\ indexOut # None
    /\ "warning" \notin DOMAIN argA
    /\ Len(indexOut.value) = 1
    /\ indexOut.value[1].kind = "Stable Environment"
    /\ argA.statistics.ndvi.vegetation_gain = 10000000
    /\ argA.statistics.cva.moderate_change_percent = 30000000

\* x / 10 clipped to [0, 255] and truncated to an integer
ClipTruncate(x10) ==
    IF x10 <= 0 THEN 0 ELSE IF x10 >= 2550 THEN 255 ELSE x10 \div 10

\* C20: on a three-channel 8-bit image simulate_bands_from_rgb returns
\* nir = clip(1.2 * green + 20, 0, 255) and swir = clip(0.8 * red + 0.3 *
\* blue, 0, 255), each truncated to an integer of [0, 255] without
\* wrap-around, and red, green and blue as they are in the image.
C20_SimulatedBandsAsStated ==
    indexOut # None =>
        \A p \in 1..(argA.h * argA.w) :
            /\ indexOut.value.red.px[p] = argA.px[p][1]
            /\ indexOut.value.green.px[p] = argA.px[p][2]
            /\ indexOut.value.blue.px[p] = argA.px[p][3]
            /\ indexOut.value.nir.px[p]
                  = ClipTruncate(12 * argA.px[p][2] + 200)
            /\ indexOut.value.swir.px[p]
                  = ClipTruncate(8 * argA.px[p][1] + 3 * argA.px[p][3])
            /\ indexOut.value.nir.px[p] \in 0..255
            /\ indexOut.value.swir.px[p] \in 0..255

\* the outcome of detect_changes_with_real_bands on the bands simulated
\* from the two colour images as the caller holds them
OnSimulatedBands ==
    detect_changes_with_real_bands(simulate_bands_from_rgb(image1),
                                   simulate_bands_from_rgb(image2)).out

\* C21: for images of equal shape the legacy detect_changes returns the
\* rasters and statistics that detect_changes_with_real_bands returns on
\* the bands simulated from the two images; the results differ only in
\* data_source, bands_used and the added warning.
C21_LegacyRunsSamePipeline ==
    (calls > 0 /\ image1 # None
        /\ <<image1.h, image1.w>> = <<image2.h, image2.w>>)
        => /\ results.status = OnSimulatedBands.status
           /\ Ok =>
                 /\ DOMAIN results.value
                       = DOMAIN OnSimulatedBands.value \cup {"warning"}
                 /\ "warning" \notin DOMAIN OnSimulatedBands.value
                 /\ \A key \in DOMAIN OnSimulatedBands.value
                                 \ {"data_source", "bands_used"} :
                       results.value[key] = OnSimulatedBands.value[key]
                 /\ results.value.data_source
                       # OnSimulatedBands.value.data_source
                 /\ results.value.bands_used
                       # OnSimulatedBands.value.bands_used

C21_Witness ==
    /\ calls > 0 /\ image1 # None /\ Ok
    /\ <<image1.h, image1.w>> = <<1, 2>>
    /\ <<image2.h, image2.w>> = <<1, 2>>
    /\ image1 # image2
    /\ Stats.ndvi.vegetation_gain + Stats.ndvi.vegetation_loss > 0

\* C25: in every returned result ndbi_change is the pixelwise negation of
\* ndmi_change, so urban_expansion equals moisture_loss and urban_reduction
\* equals moisture_gain.
C25_NdbiNegatesNdmi ==
    Ok =>
        /\ \A p \in 1..Size(results.value.ndmi_change) :
              results.value.ndbi_change.px[p]
                  = -results.value.ndmi_change.px[p]
        /\ Stats.ndbi.urban_expansion = Stats.ndmi.moisture_loss
        /\ Stats.ndbi.urban_reduction = Stats.ndmi.moisture_gain

C25_Witness ==
    /\ Ok
    /\ \E p, q \in 1..Size(results.value.ndmi_change) :
          /\ results.value.ndmi_change.px[p] > 10000000
          /\ results.value.ndmi_change.px[q] < -10000000
    /\ Stats.ndbi.urban_expansion > 0
    /\ Stats.ndbi.urban_reduction > 0

\* C26: whenever the raw magnitude has a range of at least the epsilon
\* 1e-8, at least one pixel is significant and at least one is no-change:
\* significant_change_percent > 0 and no_change_percent > 0.
C26_RelativeTiers ==
    (Ok /\ RawRange >= 1) =>
        /\ \E p \in 1..Size(results.value.cva_magnitude) :
              2 * NormN[p] >= NormD
        /\ \E p \in 1..Size(results.value.cva_magnitude) :
              5 * NormN[p] < NormD
        /\ Stats.cva.significant_change_percent > 0
        /\ Stats.cva.no_change_percent > 0

C26_Witness ==
    /\ Ok /\ RawRange = 1
    /\ SeqMax(RawMagnitude) <= 4
    /\ Size(results.value.cva_magnitude) = 3
    /\ Stats.cva.significant_change_percent > 0
    /\ Stats.cva.no_change_percent > Stats.cva.significant_change_percent

\* the latest call on the fetcher module was of this operation
GeeCalled(op) == geeCall # None /\ geeCall.op = op

\* C22: after any sequence of get_gee_fetcher calls at most one
\* GEEDataFetcher has been constructed and every call has returned that
\* instance, whether or not its Earth Engine initialization succeeded.
C22_SingleFetcher ==
    /\ geeModule.constructed <= 1
    /\ GeeCalled("get_gee_fetcher") =>
          /\ geeModule.constructed = 1
          /\ geeCall.returned = 1
          /\ geeModule.gee_fetcher.id = 1
    /\ geeModule.gee_fetcher # None =>
          (geeModule.gee_fetcher.initialized => geeModule.EE_AVAILABLE)

C22_Witness ==
    /\ calls = 2
    /\ GeeCalled("get_gee_fetcher")
    /\ geeModule.EE_AVAILABLE
    /\ ~geeModule.gee_fetcher.initialized
    /\ geeCall.returned = geeModule.gee_fetcher.id

\* C27: fetch_temporal_pair always returns: on a fetcher that is not
\* initialized (None, None, {'error': 'GEE not initialized'}) without an
\* attempt at Earth Engine, on an exception (None, None, metadata with
\* 'error'); the two images are both None and the metadata has 'error', or
\* both are arrays and the metadata has no 'error'.
C27_FetchNeverRaises ==
    GeeCalled("fetch_temporal_pair") =>
        /\ geeCall.out.status = "ok"
        /\ ~geeModule.gee_fetcher.initialized =>
              /\ geeCall.out.value
                    = <<None, None, [error |-> "GEE not initialized"]>>
              /\ geeCall.attempts = << >>
        /\ \/ /\ geeCall.out.value[1] = None
              /\ geeCall.out.value[2] = None
              /\ "error" \in DOMAIN geeCall.out.value[3]
           \/ /\ geeCall.out.value[1] # None
              /\ geeCall.out.value[2] # None
              /\ "error" \notin DOMAIN geeCall.out.value[3]

C27_Witness ==
    /\ GeeCalled("fetch_temporal_pair")
    /\ Len(geeCall.attempts) = 3
    /\ geeCall.attempts[1] = Attempt("Landsat", TRUE)
    /\ geeCall.attempts[3] = Attempt("Sentinel-2", FALSE)
    /\ geeCall.out.value[1] = None
    /\ "error" \in DOMAIN geeCall.out.value[3]

\* the sensors a step's call tried
TriedLandsat(call) ==
    \E k \in 1..Len(call.attempts) : call.attempts[k].sensor = "Landsat"
LandsatFailed(call) ==
    \E k \in 1..Len(call.attempts) :
        call.attempts[k] = Attempt("Landsat", FALSE)

NoLandsatAfterFailure(call) ==
    \A j, k \in 1..Len(call.attempts) :
        (j < k /\ call.attempts[j] = Attempt("Landsat", FALSE))
            => call.attempts[k].sensor # "Landsat"

\* C28: once a Landsat attempt has failed inside _get_composite,
\* use_landsat is false and use_sentinel is true from then on, no later
\* call attempts Landsat, and exactly one of the two flags is true in every
\* state of a fetcher.
C28_SentinelForGood ==
    [][/\ geeModule'.gee_fetcher # None =>
             geeModule'.gee_fetcher.use_landsat
                 # geeModule'.gee_fetcher.use_sentinel
       /\ (geeCall' # None /\ geeCall'.op = "fetch_temporal_pair"
              /\ LandsatFailed(geeCall')) =>
             /\ ~geeModule'.gee_fetcher.use_landsat
             /\ geeModule'.gee_fetcher.use_sentinel
             /\ NoLandsatAfterFailure(geeCall')
       /\ (geeModule.gee_fetcher # None
              /\ ~geeModule.gee_fetcher.use_landsat) =>
             /\ ~geeModule'.gee_fetcher.use_landsat
             /\ geeModule'.gee_fetcher.use_sentinel
             /\ (geeCall'.op = "fetch_temporal_pair"
                    => ~TriedLandsat(geeCall'))]_vars

C28_Witness ==
    /\ GeeCalled("fetch_temporal_pair")
    /\ ~geeModule.gee_fetcher.use_landsat
    /\ geeModule.gee_fetcher.use_sentinel
    /\ Len(geeCall.attempts) = 2
    /\ ~TriedLandsat(geeCall)
    /\ geeCall.out.value[1] # None

\* C29: in the metadata of a successful fetch_temporal_pair data_source is
\* 'Landsat 8/9' iff historical and current both record the sensor
\* 'Landsat 8', and 'Sentinel-2' iff both record 'Sentinel-2'.
C29_LabelNamesBothSensors ==
    (GeeCalled("fetch_temporal_pair") /\ geeCall.out.value[1] # None) =>
        LET metadata == geeCall.out.value[3]
        IN /\ metadata.data_source = "Landsat 8/9"
                 <=> (metadata.historical.sensor = "Landsat 8"
                      /\ metadata.current.sensor = "Landsat 8")
           /\ metadata.data_source = "Sentinel-2"
                 <=> (metadata.historical.sensor = "Sentinel-2"
                      /\ metadata.current.sensor = "Sentinel-2")

\* assess_risk has returned
Assessed == indexOut # None /\ indexOut.fn = "assess_risk"

\* the factors of a result as a set
FactorSet(r) == {r.risk_factors[k] : k \in 1..Len(r.risk_factors)}

\* C23: for every class, weather reading and change_stats assess_risk
\* returns a risk_level within [0, 100] and the category fixed by the
\* thresholds 60, 40, 25 and 12.
C23_LevelAndCategory ==
    Assessed =>
        LET r == indexOut.value
        IN /\ r.risk_level \in 0..100
           /\ r.risk_category = "CRITICAL RISK" <=> r.risk_level >= 60
           /\ r.risk_category = "HIGH RISK"
                 <=> (40 <= r.risk_level /\ r.risk_level < 60)
           /\ r.risk_category = "MEDIUM RISK"
                 <=> (25 <= r.risk_level /\ r.risk_level < 40)
           /\ r.risk_category = "LOW RISK"
                 <=> (12 <= r.risk_level /\ r.risk_level < 25)
           /\ r.risk_category = "MINIMAL RISK" <=> r.risk_level < 12

C23_Witness ==
    /\ Assessed
    /\ argA = "Desert"
    /\ RawRisk(argA, Hits(argA, argB, argC)) > 100
    /\ indexOut.value.risk_level = 100
    /\ indexOut.value.risk_category = "CRITICAL RISK"

\* C24: risk_factors is never empty; 'Favorable Conditions', with its
\* monitoring recommendation, is there iff no other factor fired, and then
\* it is the only factor.
C24_FavorableOnlyAlone ==
    Assessed =>
        LET r == indexOut.value
            favorable == FavorableFactor \in FactorSet(r)
            advised ==
                \E k \in 1..Len(r.recommendations) :
                    r.recommendations[k] = FavorableRecommendation
        IN /\ r.risk_factors # << >>
           /\ favorable <=> Hits(argA, argB, argC) = << >>
           /\ favorable <=> advised
           /\ favorable => r.risk_factors = <<FavorableFactor>>
           /\ ~favorable =>
                 r.risk_factors = FactorsOf(Hits(argA, argB, argC))

C24_Witness ==
    /\ Assessed
    /\ argB # << >>
    /\ indexOut.value.risk_factors = <<FavorableFactor>>
    /\ indexOut.value.recommendations = <<FavorableRecommendation>>

\* C30: every base score is at least 15 (25 for a class not in the table)
\* and every adjustment is positive, so risk_level is at least 15,
\* 'MINIMAL RISK' is never returned and 'LOW RISK' only for Highway.
C30_NeverMinimal ==
    Assessed =>
        LET r == indexOut.value
            hits == Hits(argA, argB, argC)
        IN /\ BaseScore(argA) >= 15
           /\ argA \notin DOMAIN land_cover_vulnerability
                 => BaseScore(argA) = 25
           /\ \A k \in 1..Len(hits) : hits[k].add > 0
           /\ r.risk_level >= 15
           /\ r.risk_category # "MINIMAL RISK"
           /\ r.risk_category = "LOW RISK" => argA = "Highway"

C30_Witness ==
    /\ Assessed
    /\ argA = "Highway"
    /\ Len(Hits(argA, argB, argC)) = 1
    /\ indexOut.value.risk_level = 23
    /\ indexOut.value.risk_category = "LOW RISK"

====
